---- MODULE Spec2Model ----
\* Replicated-write coordinator (MirrorStorage) of stowage, over N backend
\* stores holding one object id.  Backends are generic `Storage` values: each
\* backend call either behaves like MemoryStorage or reports an error chosen
\* by the environment; with a per-backend timeout configured a put may also
\* elapse, in which case the backend may or may not have applied the write.
EXTENDS Integers, Sequences, FiniteSets, TLC

\* ---------------------------------------------------------------- bounds
MaxBackends == 3
MaxCalls == 2
MaxBackendCount == 10

\* ---------------------------------------------------------------- values
\* The bytes of a put are named by the call that wrote them: the k-th call of
\* a run puts the payload <<"bytes", k>>, so the payloads of different puts differ.
Payload(k) == <<"bytes", k>>
Absent == <<"absent", 0>>

StrategyKinds == {"AllOrFail", "AtLeastOne", "Quorum"}
WriteStrategy == [kind : StrategyKinds, rollback : BOOLEAN]
ReturnPolicy == {"WaitAll", "Optimistic", "FastFail"}
Timeouts == {"None", "Some"}

\* Error (lib.rs): the variants are records [kind, msg]; MirrorFailure
\* carries the details record instead of a message.
NotFound(s) == [kind |-> "NotFound", msg |-> s]
PermissionDenied(s) == [kind |-> "PermissionDenied", msg |-> s]
ConnectionError == [kind |-> "Connection", msg |-> ""]
Generic(s) == [kind |-> "Generic", msg |-> s]
MirrorFailure(details) == [kind |-> "MirrorFailure", details |-> details]

\* Display of Error (thiserror attributes), for the variants a backend returns.
to_string(e) ==
    CASE e.kind = "NotFound" -> "File not found: " \o e.msg
      [] e.kind = "PermissionDenied" -> "Permission denied: " \o e.msg
      [] e.kind = "Connection" -> "Storage backend connection error"
      [] e.kind = "Io" -> "IO Error"
      [] e.kind = "Generic" -> "Generic storage error: " \o e.msg

\* Result<()>
OkR == [tag |-> "Ok"]
ErrR(e) == [tag |-> "Err", error |-> e]
NoResult == [tag |-> "None"]
Pending == [tag |-> "Pending"]

\* The error a failing call of backend i reports: messages name the backend's
\* own path, so the errors of different backends differ.
BackendName == <<"b0", "b1", "b2", "b3", "b4">>
BackendError(i) == PermissionDenied(BackendName[i + 1])

MirrorFailureDetails(s, f, r) ==
    [successes |-> s, failures |-> f, rollback_errors |-> r]

total_backends_with_rollback(details) ==
    Len(details.successes) + Len(details.failures) + Len(details.rollback_errors)

\* MirrorFailureDetails::total_backends
total_backends(details) == Len(details.successes) + Len(details.failures)

success_count(details) == Len(details.successes)
has_successes(details) == details.successes # <<>>

\* ---------------------------------------------------------------- state
VARIABLES
    backends,         \* backend index -> content held under the id, or Absent
    write_strategy,
    return_policy,
    backend_timeout,
    primary_index,    \* index of the backend that serves reads
    pc,               \* position of the caller: idle, put, spawned, rollback, delete
    buffer,           \* the buffered payload of the running put
    required,         \* required_successes local of put
    idx,              \* loop index of put
    results,          \* results vector (WaitAll put, delete)
    successes,
    failures,
    rollback_errors,
    rb,               \* number of entries of successes already rolled back
    result,           \* what the last finished call returned
    bg,               \* the spawned background tasks, in spawn order
    trace,            \* backend calls issued by the running (or last) call
    history,          \* the calls started so far: "put" / "delete", in order
    quiet,            \* no background task was active when the call started
    bg_failed,        \* backends whose background put of the last call failed
    read,             \* the running (or last) read call: exists, folder_exists, get_into, list
    fallback,         \* a FallbackStorage over two stores, with its running (or last) call
    readonly,         \* a ReadOnlyStorage over an inner store, with its last call
    migration         \* a source and a destination store, with the running migrate call

cfg == <<write_strategy, return_policy, backend_timeout, primary_index>>
locals == <<buffer, required, idx, results, successes, failures, rollback_errors, rb>>
mirror == <<backends, cfg, pc, locals, result, bg, trace, history, quiet, bg_failed, read>>
\* The composition wrappers beside the mirror.
wrappers == <<fallback, readonly, migration>>
vars == <<mirror, wrappers>>

N == Cardinality(DOMAIN backends)
calls == Len(history)

\* ---------------------------------------------------------------- strategy
should_rollback(strategy) == strategy.rollback

required_successes_quorum_half(strategy, backend_count) ==
    CASE strategy.kind = "AllOrFail" -> backend_count
      [] strategy.kind = "AtLeastOne" -> 1
      [] strategy.kind = "Quorum" -> (backend_count + 1) \div 2

required_successes(strategy, backend_count) ==
    CASE strategy.kind = "AllOrFail" -> backend_count
      [] strategy.kind = "AtLeastOne" -> 1
      [] strategy.kind = "Quorum" -> (backend_count \div 2) + 1

\* Indices (0-based) of the Ok entries of a results vector, in order.
ok_indices(res) ==
    LET F[k \in 0..Len(res)] ==
            IF k = 0 THEN <<>>
            ELSE IF res[k].tag = "Ok" THEN Append(F[k - 1], k - 1) ELSE F[k - 1]
    IN F[Len(res)]

err_entries_first(res) ==
    LET bad == {k \in 1..Len(res) : res[k].tag = "Err"}
        k1 == CHOOSE k \in bad : \A j \in bad : k <= j
    IN  IF bad = {} THEN <<>> ELSE <<(<<k1 - 1, Generic(to_string(res[k1].error))>>)>>

\* (index, Generic(e.to_string())) of the Err entries, in order.
err_entries(res) ==
    LET F[k \in 0..Len(res)] ==
            IF k = 0 THEN <<>>
            ELSE IF res[k].tag = "Err"
                 THEN Append(F[k - 1], <<k - 1, Generic(to_string(res[k].error))>>)
                 ELSE F[k - 1]
    IN F[Len(res)]

\* success iff success_count >= required_successes(N).
evaluate_write_results(res, strategy, n) ==
    LET details == MirrorFailureDetails(ok_indices(res), err_entries(res), <<>>)
    IN  [ok |-> success_count(details) >= required_successes(strategy, n),
         details |-> details]

\* ---------------------------------------------------------------- backends
\* MemoryStorage: put inserts, delete removes and is Ok also for a missing id.
MemoryStorage_put_truncating(content, p) == [content |-> <<"bytes", 0>>, res |-> OkR]

MemoryStorage_put(content, p) == [content |-> p, res |-> OkR]

MemoryStorage_delete_strict(content) ==
    IF content = Absent THEN [content |-> content, res |-> ErrR(NotFound("id"))]
    ELSE [content |-> Absent, res |-> OkR]

MemoryStorage_delete_keeping(content) == [content |-> content, res |-> OkR]

MemoryStorage_delete(content) == [content |-> Absent, res |-> OkR]

\* What the environment decides for one backend call.
Healthy == [tag |-> "Healthy"]
Fault(e) == [tag |-> "Fault", error |-> e]
Elapsed(w) == [tag |-> "Elapsed", wrote |-> w]

DeleteOutcomes(i) == {Healthy, Fault(BackendError(i))}
PutOutcomes(i) ==
    DeleteOutcomes(i) \cup
    (IF backend_timeout = "Some" THEN {Elapsed(w) : w \in BOOLEAN} ELSE {})

backend_put_late_ok(content, p, out) ==
    CASE out.tag = "Healthy" -> MemoryStorage_put(content, p)
      [] out.tag = "Fault" -> [content |-> content, res |-> ErrR(out.error)]
      [] out.tag = "Elapsed" ->
            [content |-> IF out.wrote THEN p ELSE content,
             res |-> IF out.wrote THEN OkR ELSE ErrR(Generic("Backend timeout"))]

\* One backend put, raced against the timeout when one is configured: the
\* backend's new content and the result the coordinator sees.
backend_put(content, p, out) ==
    CASE out.tag = "Healthy" -> MemoryStorage_put(content, p)
      [] out.tag = "Fault" -> [content |-> content, res |-> ErrR(out.error)]
      [] out.tag = "Elapsed" ->
            [content |-> IF out.wrote THEN p ELSE content,
             res |-> ErrR(Generic("Backend timeout"))]

backend_delete(content, out) ==
    CASE out.tag = "Healthy" -> MemoryStorage_delete(content)
      [] out.tag = "Fault" -> [content |-> content, res |-> ErrR(out.error)]

Call(op, b, out, res) == [op |-> op, b |-> b, env |-> out.tag, res |-> res]

\* No read call has been made since the last write call.
NoRead == [op |-> "none", pc |-> "idle", k |-> 0, first |-> NoResult,
           trace |-> <<>>, result |-> NoResult]

\* No FallbackStorage is in use: the state of `fallback` in the mirror's runs.
NoFallback == [pc |-> "none"]
NoReadOnly == [pc |-> "none"]
NoMigration == [pc |-> "none"]

\* ---------------------------------------------------------------- Init
Init ==
    /\ \E n \in 1..MaxBackends : backends = [i \in 0..(n - 1) |-> Absent]
    /\ write_strategy \in WriteStrategy
    /\ return_policy \in ReturnPolicy
    /\ backend_timeout \in Timeouts
    /\ primary_index = 0
    /\ read = NoRead
    /\ fallback = NoFallback
    /\ readonly = NoReadOnly
    /\ migration = NoMigration
    /\ pc = "idle"
    /\ buffer = Absent
    /\ required = 0
    /\ idx = 0
    /\ results = <<>>
    /\ successes = <<>>
    /\ failures = <<>>
    /\ rollback_errors = <<>>
    /\ rb = 0
    /\ result = NoResult
    /\ bg = <<>>
    /\ trace = <<>>
    /\ history = <<>>
    /\ quiet = TRUE
    /\ bg_failed = {}

BgActive == \E t \in 1..Len(bg) : bg[t].next < N

\* The tasks still running; a task that has made its last put is gone.
Running(tasks) == SelectSeq(tasks, LAMBDA t : t.next < N)

\* ---------------------------------------------------------------- put
threshold_met_early(count, req) == count + 1 >= req

threshold_met_strict(count, req) == count > req

\* success_count >= required_successes
threshold_met(count, req) == count >= req

doomed_inclusive(count, remaining, req) == count + remaining <= req

\* FastFail: success is no longer possible (max_possible_successes < required).
doomed(count, remaining, req) == count + remaining < req

rollback_targets_attempted(succ, fail) ==
    succ \o [k \in 1..Len(fail) |-> fail[k][1]]

\* The indices handed to rollback_writes: details.successes.
rollback_targets(succ, fail) == succ

failure_after_rollback_promoting(details, rerrs) ==
    IF rerrs # <<>> THEN ErrR(rerrs[1][2])
    ELSE ErrR(MirrorFailure(
            MirrorFailureDetails(details.successes, details.failures, rerrs)))

\* Err(MirrorFailure(MirrorFailureDetails { rollback_errors, ..details }))
failure_after_rollback(details, rerrs) ==
    ErrR(MirrorFailure(
            MirrorFailureDetails(details.successes, details.failures, rerrs)))

record_rollback_error_dropping(rerrs, i, res) == rerrs

\* if let Err(e) = delete(id) { rollback_errors.push((idx, Box::new(e))) }
record_rollback_error(rerrs, i, res) ==
    IF res.tag = "Err" THEN Append(rerrs, <<i, res.error>>) ELSE rerrs

PutBegin ==
    /\ pc = "idle"
    /\ read.pc = "idle"
    /\ calls < MaxCalls
    /\ read' = NoRead
    /\ pc' = "put"
    /\ buffer' = Payload(calls + 1)
    /\ required' = required_successes(write_strategy, N)
    /\ idx' = 0
    /\ results' = <<>>
    /\ successes' = <<>>
    /\ failures' = <<>>
    /\ rollback_errors' = <<>>
    /\ rb' = 0
    /\ result' = NoResult
    /\ trace' = <<>>
    /\ history' = Append(history, "put")
    /\ quiet' = ~BgActive
    /\ bg_failed' = {}
    /\ bg' = bg
    /\ UNCHANGED <<backends, cfg, wrappers>>

\* The failure path shared by the three policies: start the rollback when the
\* strategy asks for it and something succeeded, else return the failure.
FailWrite(details) ==
    /\ successes' = details.successes
    /\ failures' = details.failures
    /\ rollback_errors' = <<>>
    /\ rb' = 0
    /\ IF should_rollback(write_strategy) /\ has_successes(details)
       THEN pc' = "rollback" /\ result' = result
       ELSE pc' = "idle" /\ result' = ErrR(MirrorFailure(details))

ReturnOk ==
    /\ pc' = "idle"
    /\ result' = OkR

PutWaitAll ==
    /\ pc = "put"
    /\ return_policy = "WaitAll"
    /\ idx < N
    /\ \E out \in PutOutcomes(idx) :
        LET r == backend_put(backends[idx], buffer, out)
            res2 == Append(results, r.res)
            ev == evaluate_write_results(res2, write_strategy, N)
        IN  /\ backends' = [backends EXCEPT ![idx] = r.content]
            /\ trace' = Append(trace, Call("put", idx, out, r.res))
            /\ results' = res2
            /\ idx' = idx + 1
            /\ IF idx + 1 < N
               THEN UNCHANGED <<pc, result, successes, failures, rollback_errors, rb>>
               ELSE IF ev.ok
                    THEN ReturnOk /\ UNCHANGED <<successes, failures, rollback_errors, rb>>
                    ELSE FailWrite(ev.details)
    /\ UNCHANGED <<cfg, buffer, required, bg, history, wrappers, read, quiet, bg_failed>>

PutOptimistic ==
    /\ pc = "put"
    /\ return_policy = "Optimistic"
    /\ idx < N
    /\ \E out \in PutOutcomes(idx) :
        LET r == backend_put(backends[idx], buffer, out)
            succ2 == IF r.res.tag = "Ok" THEN Append(successes, idx) ELSE successes
            fail2 == IF r.res.tag = "Ok" THEN failures
                     ELSE Append(failures, <<idx, Generic(to_string(r.res.error))>>)
        IN  /\ backends' = [backends EXCEPT ![idx] = r.content]
            /\ trace' = Append(trace, Call("put", idx, out, r.res))
            /\ idx' = idx + 1
            /\ IF r.res.tag = "Ok" /\ threshold_met(Len(succ2), required)
               THEN /\ successes' = succ2
                    /\ UNCHANGED <<failures, rollback_errors, rb>>
                    /\ IF idx + 1 < N
                       THEN /\ bg' = Append(bg, [payload |-> buffer, next |-> idx + 1])
                            /\ pc' = "spawned"
                            /\ result' = result
                       ELSE ReturnOk /\ bg' = bg
               ELSE /\ bg' = bg
                    /\ IF idx + 1 < N
                       THEN /\ successes' = succ2
                            /\ failures' = fail2
                            /\ UNCHANGED <<pc, result, rollback_errors, rb>>
                       ELSE FailWrite(MirrorFailureDetails(succ2, fail2, <<>>))
    /\ UNCHANGED <<cfg, buffer, required, results, history, wrappers, read, quiet, bg_failed>>

\* `return Ok(())` after tokio::spawn: the task exists before the caller resumes.
PutOptimisticReturn ==
    /\ pc = "spawned"
    /\ ReturnOk
    /\ UNCHANGED <<backends, cfg, locals, bg, trace, history, wrappers, read, quiet, bg_failed>>

PutFastFail ==
    /\ pc = "put"
    /\ return_policy = "FastFail"
    /\ idx < N
    /\ \E out \in PutOutcomes(idx) :
        LET r == backend_put(backends[idx], buffer, out)
            succ2 == IF r.res.tag = "Ok" THEN Append(successes, idx) ELSE successes
            fail2 == IF r.res.tag = "Ok" THEN failures
                     ELSE Append(failures, <<idx, Generic(to_string(r.res.error))>>)
            remaining_backends == N - (idx + 1)
        IN  /\ backends' = [backends EXCEPT ![idx] = r.content]
            /\ trace' = Append(trace, Call("put", idx, out, r.res))
            /\ idx' = idx + 1
            /\ IF r.res.tag = "Ok" /\ threshold_met(Len(succ2), required)
               THEN /\ ReturnOk
                    /\ successes' = succ2
                    /\ UNCHANGED <<failures, rollback_errors, rb>>
               ELSE IF doomed(Len(succ2), remaining_backends, required)
                    THEN FailWrite(MirrorFailureDetails(succ2, fail2, <<>>))
                    ELSE IF idx + 1 < N
                         THEN /\ successes' = succ2
                              /\ failures' = fail2
                              /\ UNCHANGED <<pc, result, rollback_errors, rb>>
                         ELSE IF threshold_met(Len(succ2), required)
                              THEN /\ ReturnOk
                                   /\ successes' = succ2
                                   /\ UNCHANGED <<failures, rollback_errors, rb>>
                              ELSE FailWrite(MirrorFailureDetails(succ2, fail2, <<>>))
    /\ UNCHANGED <<cfg, buffer, required, results, bg, history, wrappers, read, quiet, bg_failed>>

\* rollback_writes, one delete per step, and the return that follows the last.
Rollback ==
    /\ pc = "rollback"
    /\ LET targets == rollback_targets(successes, failures)
           i == targets[rb + 1]
       IN  \E out \in DeleteOutcomes(i) :
            LET r == backend_delete(backends[i], out)
                rerrs == record_rollback_error(rollback_errors, i, r.res)
            IN  /\ backends' = [backends EXCEPT ![i] = r.content]
                /\ trace' = Append(trace, Call("delete", i, out, r.res))
                /\ rollback_errors' = rerrs
                /\ rb' = rb + 1
                /\ IF rb + 1 < Len(targets)
                   THEN UNCHANGED <<pc, result>>
                   ELSE /\ pc' = "idle"
                        /\ result' = failure_after_rollback(
                               MirrorFailureDetails(successes, failures, <<>>), rerrs)
    /\ UNCHANGED <<cfg, buffer, required, idx, results, successes, failures, bg, history, wrappers, read,
                   quiet, bg_failed>>

\* ---------------------------------------------------------------- delete
delete_result_last(res) ==
    IF \E k \in 1..Len(res) : res[k].tag = "Ok" THEN OkR
    ELSE res[CHOOSE k \in 1..Len(res) :
                /\ res[k].tag = "Err"
                /\ \A j \in 1..Len(res) : res[j].tag = "Err" => j <= k]

\* successes > 0 -> Ok, else the first Err of the results vector.
delete_result(res) ==
    LET n_ok == Cardinality({k \in 1..Len(res) : res[k].tag = "Ok"})
    IN  IF n_ok > 0 THEN OkR
        ELSE res[CHOOSE k \in 1..Len(res) :
                    /\ res[k].tag = "Err"
                    /\ \A j \in 1..Len(res) : res[j].tag = "Err" => k <= j]

DeleteBegin ==
    /\ pc = "idle"
    /\ read.pc = "idle"
    /\ calls < MaxCalls
    /\ read' = NoRead
    /\ pc' = "delete"
    /\ results' = [k \in 1..N |-> Pending]
    /\ buffer' = Absent
    /\ required' = 0
    /\ idx' = 0
    /\ successes' = <<>>
    /\ failures' = <<>>
    /\ rollback_errors' = <<>>
    /\ rb' = 0
    /\ result' = NoResult
    /\ trace' = <<>>
    /\ history' = Append(history, "delete")
    /\ quiet' = ~BgActive
    /\ bg_failed' = {}
    /\ bg' = bg
    /\ UNCHANGED <<backends, cfg, wrappers>>

\* join_all: the backend deletes complete in any order; the call returns
\* with the last completion.
DeleteStep ==
    /\ pc = "delete"
    /\ \E i \in DOMAIN backends : \E out \in DeleteOutcomes(i) :
        LET r == backend_delete(backends[i], out)
            res2 == [results EXCEPT ![i + 1] = r.res]
        IN  /\ results[i + 1] = Pending
            /\ backends' = [backends EXCEPT ![i] = r.content]
            /\ trace' = Append(trace, Call("delete", i, out, r.res))
            /\ results' = res2
            /\ IF \E k \in 1..N : res2[k] = Pending
               THEN UNCHANGED <<pc, result>>
               ELSE pc' = "idle" /\ result' = delete_result(res2)
    /\ UNCHANGED <<cfg, buffer, required, idx, successes, failures, rollback_errors, rb,
                   bg, history, wrappers, read, quiet, bg_failed>>

\* ---------------------------------------------------------------- background
task_after_stopping(task, res) ==
    [payload |-> task.payload,
     next |-> IF res.tag = "Ok" THEN task.next + 1 ELSE N]

\* The task's loop goes on to the next remaining backend whatever the put
\* returned: a failure or a timeout is only logged.
task_after(task, res) == [payload |-> task.payload, next |-> task.next + 1]

\* One put of a spawned task; its outcome is only logged.
Background ==
    \E t \in 1..Len(bg) :
        LET i == bg[t].next
        IN  /\ i < N
            /\ \E out \in PutOutcomes(i) :
                LET r == backend_put(backends[i], bg[t].payload, out)
                IN  /\ backends' = [backends EXCEPT ![i] = r.content]
                    /\ bg' = Running([bg EXCEPT ![t] = task_after(bg[t], r.res)])
                    /\ bg_failed' = IF bg[t].payload = buffer /\ r.res.tag # "Ok"
                                    THEN bg_failed \cup {i}
                                    ELSE bg_failed
                    /\ UNCHANGED <<cfg, pc, locals, result, trace, history, wrappers, read, quiet>>

\* ---------------------------------------------------------------- reads
\* Result<T> carrying a value.
OkV(v) == [tag |-> "Ok", value |-> v]

primary == primary_index

\* A backend read that fails reports the backend's own error or a
\* connection error; the two calls of one read may fail differently.
ReadOutcomes(i) == {Healthy, Fault(BackendError(i)), Fault(ConnectionError)}

\* folder_exists: the folder structure is not part of the object's content,
\* so the answer of a backend that does answer is the environment's.
Found(b) == [tag |-> "Healthy", answer |-> b]
FolderOutcomes(i) ==
    {Found(b) : b \in BOOLEAN} \cup {Fault(BackendError(i)), Fault(ConnectionError)}

\* MemoryStorage::exists: Ok(map.contains_key(id)).
MemoryStorage_exists(content) == OkV(content # Absent)

\* MemoryStorage::get_into: the bytes held under the id, or NotFound(id).
MemoryStorage_get_into(content) ==
    IF content = Absent THEN ErrR(NotFound("id")) ELSE OkV(content)

\* MemoryStorage::list: the ids held, sorted.
MemoryStorage_list(content) ==
    OkV(IF content = Absent THEN <<>> ELSE <<"id">>)

backend_exists(op, content, out) ==
    CASE out.tag = "Fault" -> ErrR(out.error)
      [] out.tag = "Healthy" /\ op = "exists" -> MemoryStorage_exists(content)
      [] out.tag = "Healthy" /\ op = "folder_exists" -> OkV(out.answer)

ExistsOutcomes(op, i) == IF op = "exists" THEN ReadOutcomes(i) ELSE FolderOutcomes(i)

backend_get_into(content, out) ==
    CASE out.tag = "Fault" -> ErrR(out.error)
      [] out.tag = "Healthy" -> MemoryStorage_get_into(content)

backend_list(content, out) ==
    CASE out.tag = "Fault" -> ErrR(out.error)
      [] out.tag = "Healthy" -> MemoryStorage_list(content)

ReadCall(b, out, res) == [b |-> b, env |-> out.tag, res |-> res]

ExistsOps == {"exists", "folder_exists"}

\* exists / folder_exists are entered.
ExistsBegin ==
    /\ pc = "idle"
    /\ read.pc = "idle"
    /\ \E op \in ExistsOps :
        read' = [op |-> op, pc |-> "primary", k |-> 0, first |-> NoResult,
                 trace |-> <<>>, result |-> NoResult]
    /\ UNCHANGED <<backends, cfg, pc, locals, result, bg, trace, history, wrappers, quiet, bg_failed>>

primary_answer_fallthrough(r) == FALSE

\* match self.primary().exists(id).await { Ok(exists) => Ok(exists), Err(e) => ... }
primary_answer(r) == r.tag = "Ok"

ExistsPrimary ==
    /\ read.pc = "primary"
    /\ \E out \in ExistsOutcomes(read.op, primary) :
        LET r == backend_exists(read.op, backends[primary], out)
            tr == Append(read.trace, ReadCall(primary, out, r))
        IN  read' = IF primary_answer(r)
                    THEN [read EXCEPT !.pc = "idle", !.trace = tr, !.result = r]
                    ELSE [read EXCEPT !.pc = "probe", !.trace = tr, !.first = r, !.k = 0]
    /\ UNCHANGED <<backends, cfg, pc, locals, result, bg, trace, history, wrappers, quiet, bg_failed>>

\* for (idx, backend) in self.backends.iter().enumerate(): the first Ok returns.
ExistsProbe ==
    /\ read.pc = "probe"
    /\ read.k < N
    /\ \E out \in ExistsOutcomes(read.op, read.k) :
        LET r == backend_exists(read.op, backends[read.k], out)
            tr == Append(read.trace, ReadCall(read.k, out, r))
        IN  read' = IF r.tag = "Ok"
                    THEN [read EXCEPT !.pc = "idle", !.trace = tr, !.result = r]
                    ELSE [read EXCEPT !.pc = IF read.k + 1 < N THEN "probe" ELSE "last",
                                      !.trace = tr, !.k = read.k + 1]
    /\ UNCHANGED <<backends, cfg, pc, locals, result, bg, trace, history, wrappers, quiet, bg_failed>>

\* self.primary().exists(id).await: what a new call of the primary returns.
last_resort(first, r) == r

ExistsLast ==
    /\ read.pc = "last"
    /\ \E out \in ExistsOutcomes(read.op, primary) :
        LET r == backend_exists(read.op, backends[primary], out)
        IN  read' = [read EXCEPT !.pc = "idle",
                                 !.trace = Append(read.trace, ReadCall(primary, out, r)),
                                 !.result = last_resort(read.first, r)]
    /\ UNCHANGED <<backends, cfg, pc, locals, result, bg, trace, history, wrappers, quiet, bg_failed>>

read_source_first_holder(content) ==
    IF \E i \in DOMAIN content : content[i] # Absent
    THEN CHOOSE i \in DOMAIN content :
            content[i] # Absent /\ \A j \in DOMAIN content : content[j] # Absent => i <= j
    ELSE primary

\* The backend that serves get_into and list: self.primary().
read_source(content) == primary

GetInto ==
    /\ pc = "idle"
    /\ read.pc = "idle"
    /\ LET b == read_source(backends)
       IN  \E out \in ReadOutcomes(b) :
            LET r == backend_get_into(backends[b], out)
            IN  read' = [op |-> "get_into", pc |-> "idle", k |-> 0, first |-> NoResult,
                         trace |-> <<ReadCall(b, out, r)>>, result |-> r]
    /\ UNCHANGED <<backends, cfg, pc, locals, result, bg, trace, history, wrappers, quiet, bg_failed>>

List ==
    /\ pc = "idle"
    /\ read.pc = "idle"
    /\ LET b == read_source(backends)
       IN  \E out \in ReadOutcomes(b) :
            LET r == backend_list(backends[b], out)
            IN  read' = [op |-> "list", pc |-> "idle", k |-> 0, first |-> NoResult,
                         trace |-> <<ReadCall(b, out, r)>>, result |-> r]
    /\ UNCHANGED <<backends, cfg, pc, locals, result, bg, trace, history, wrappers, quiet, bg_failed>>

Next ==
    \/ PutBegin
    \/ PutWaitAll
    \/ PutOptimistic
    \/ PutOptimisticReturn
    \/ PutFastFail
    \/ Rollback
    \/ DeleteBegin
    \/ DeleteStep
    \/ Background

Spec == Init /\ [][Next]_vars

\* required_successes on its own: every strategy and every backend count up
\* to MaxBackendCount, applied by the first statement of put.
InitRequired ==
    /\ \E n \in 1..MaxBackendCount : backends = [i \in 0..(n - 1) |-> Absent]
    /\ write_strategy \in WriteStrategy
    /\ return_policy \in ReturnPolicy
    /\ backend_timeout = "None"
    /\ primary_index = 0
    /\ read = NoRead
    /\ fallback = NoFallback
    /\ readonly = NoReadOnly
    /\ migration = NoMigration
    /\ pc = "idle"
    /\ buffer = Absent
    /\ required = 0
    /\ idx = 0
    /\ results = <<>>
    /\ successes = <<>>
    /\ failures = <<>>
    /\ rollback_errors = <<>>
    /\ rb = 0
    /\ result = NoResult
    /\ bg = <<>>
    /\ trace = <<>>
    /\ history = <<>>
    /\ quiet = TRUE
    /\ bg_failed = {}

NextRequired == PutBegin

SpecRequired == InitRequired /\ [][NextRequired]_vars

\* Optimistic puts with their background tasks, the tasks being scheduled
\* for as long as they have a put to make (tokio runs a spawned task to its end).
InitLive ==
    /\ \E n \in 1..MaxBackends : backends = [i \in 0..(n - 1) |-> Absent]
    /\ write_strategy \in WriteStrategy
    /\ return_policy = "Optimistic"
    /\ backend_timeout \in Timeouts
    /\ primary_index = 0
    /\ read = NoRead
    /\ fallback = NoFallback
    /\ readonly = NoReadOnly
    /\ migration = NoMigration
    /\ pc = "idle"
    /\ buffer = Absent
    /\ required = 0
    /\ idx = 0
    /\ results = <<>>
    /\ successes = <<>>
    /\ failures = <<>>
    /\ rollback_errors = <<>>
    /\ rb = 0
    /\ result = NoResult
    /\ bg = <<>>
    /\ trace = <<>>
    /\ history = <<>>
    /\ quiet = TRUE
    /\ bg_failed = {}

NextLive ==
    \/ PutBegin
    \/ PutOptimistic
    \/ PutOptimisticReturn
    \/ Rollback
    \/ Background

SpecLive == InitLive /\ [][NextLive]_vars /\ WF_vars(Background)

\* Reads served by the primary: a mirror with any primary index, written
\* through WaitAll puts and read between the write calls.
InitRead ==
    /\ \E n \in 1..MaxBackends :
        /\ backends = [i \in 0..(n - 1) |-> Absent]
        /\ primary_index \in 0..(n - 1)
    /\ write_strategy \in WriteStrategy
    /\ return_policy = "WaitAll"
    /\ backend_timeout \in Timeouts
    /\ read = NoRead
    /\ fallback = NoFallback
    /\ readonly = NoReadOnly
    /\ migration = NoMigration
    /\ pc = "idle"
    /\ buffer = Absent
    /\ required = 0
    /\ idx = 0
    /\ results = <<>>
    /\ successes = <<>>
    /\ failures = <<>>
    /\ rollback_errors = <<>>
    /\ rb = 0
    /\ result = NoResult
    /\ bg = <<>>
    /\ trace = <<>>
    /\ history = <<>>
    /\ quiet = TRUE
    /\ bg_failed = {}

NextRead ==
    \/ PutBegin
    \/ PutWaitAll
    \/ Rollback
    \/ GetInto
    \/ List

SpecRead == InitRead /\ [][NextRead]_vars

\* The read router of exists / folder_exists: a mirror built (with the
\* builder's default strategy and policy) over backends that hold the object
\* or not, with any primary index.
InitExists ==
    /\ \E n \in 1..MaxBackends :
        /\ backends \in [0..(n - 1) -> {Absent, Payload(1)}]
        /\ primary_index \in 0..(n - 1)
    /\ write_strategy = [kind |-> "AllOrFail", rollback |-> FALSE]
    /\ return_policy = "WaitAll"
    /\ backend_timeout = "None"
    /\ read = NoRead
    /\ fallback = NoFallback
    /\ readonly = NoReadOnly
    /\ migration = NoMigration
    /\ pc = "idle"
    /\ buffer = Absent
    /\ required = 0
    /\ idx = 0
    /\ results = <<>>
    /\ successes = <<>>
    /\ failures = <<>>
    /\ rollback_errors = <<>>
    /\ rb = 0
    /\ result = NoResult
    /\ bg = <<>>
    /\ trace = <<>>
    /\ history = <<>>
    /\ quiet = TRUE
    /\ bg_failed = {}

NextExists ==
    \/ ExistsBegin
    \/ ExistsPrimary
    \/ ExistsProbe
    \/ ExistsLast

SpecExists == InitExists /\ [][NextExists]_vars

\* ---------------------------------------------------------------- puts alone
\* The mirror of Init under puts only: every policy, with the background
\* tasks of its Optimistic puts.
NextPuts ==
    \/ PutBegin
    \/ PutWaitAll
    \/ PutOptimistic
    \/ PutOptimisticReturn
    \/ PutFastFail
    \/ Rollback
    \/ Background

SpecPuts == Init /\ [][NextPuts]_vars

\* ---------------------------------------------------------------- WaitAll, issue and completion
\* The WaitAll loop with the issue of a backend put and its completion as
\* separate steps: `backend.put(..).await` inside `for (idx, backend) in ..`.
InitDispatch == Init /\ return_policy = "WaitAll"

\* The put to backend idx is issued; the caller awaits it.
PutWaitAllIssue ==
    /\ pc = "put"
    /\ return_policy = "WaitAll"
    /\ idx < N
    /\ pc' = "awaiting"
    /\ UNCHANGED <<backends, cfg, locals, result, bg, trace, history, wrappers, read, quiet,
                   bg_failed>>

\* The awaited put completes or its timeout elapses; its result is pushed
\* and the loop goes on, or the results are evaluated after the last one.
PutWaitAllComplete ==
    /\ pc = "awaiting"
    /\ \E out \in PutOutcomes(idx) :
        LET r == backend_put(backends[idx], buffer, out)
            res2 == Append(results, r.res)
            ev == evaluate_write_results(res2, write_strategy, N)
        IN  /\ backends' = [backends EXCEPT ![idx] = r.content]
            /\ trace' = Append(trace, Call("put", idx, out, r.res))
            /\ results' = res2
            /\ idx' = idx + 1
            /\ IF idx + 1 < N
               THEN /\ pc' = "put"
                    /\ UNCHANGED <<result, successes, failures, rollback_errors, rb>>
               ELSE IF ev.ok
                    THEN ReturnOk /\ UNCHANGED <<successes, failures, rollback_errors, rb>>
                    ELSE FailWrite(ev.details)
    /\ UNCHANGED <<cfg, buffer, required, bg, history, wrappers, read, quiet, bg_failed>>

NextDispatch ==
    \/ PutBegin
    \/ PutWaitAllIssue
    \/ PutWaitAllComplete
    \/ Rollback

SpecDispatch == InitDispatch /\ [][NextDispatch]_vars

\* ---------------------------------------------------------------- FastFail alone
\* A mirror built with_return_policy(ReturnPolicy::FastFail), and its puts.
InitFastFail ==
    /\ \E n \in 1..MaxBackends : backends = [i \in 0..(n - 1) |-> Absent]
    /\ write_strategy \in WriteStrategy
    /\ return_policy = "FastFail"
    /\ backend_timeout \in Timeouts
    /\ primary_index = 0
    /\ read = NoRead
    /\ fallback = NoFallback
    /\ readonly = NoReadOnly
    /\ migration = NoMigration
    /\ pc = "idle"
    /\ buffer = Absent
    /\ required = 0
    /\ idx = 0
    /\ results = <<>>
    /\ successes = <<>>
    /\ failures = <<>>
    /\ rollback_errors = <<>>
    /\ rb = 0
    /\ result = NoResult
    /\ bg = <<>>
    /\ trace = <<>>
    /\ history = <<>>
    /\ quiet = TRUE
    /\ bg_failed = {}

NextFastFail ==
    \/ PutBegin
    \/ PutFastFail
    \/ Rollback

SpecFastFail == InitFastFail /\ [][NextFastFail]_vars

\* ---------------------------------------------------------------- FallbackStorage
\* The two stores are backends 0 (primary) and 1 (secondary) as far as their
\* errors go; a call of a store succeeds as MemoryStorage does or fails.
StoreOutcomes(store) ==
    {Healthy, Fault(BackendError(IF store = "primary" THEN 0 ELSE 1))}

StoreCall(store, op, out, res) ==
    [store |-> store, op |-> op, env |-> out.tag, res |-> res]

\* FallbackStorage::new over two stores that hold the object (as written by
\* their owner before) or not, then with_write_through(enabled).
InitFallback ==
    /\ backends = [i \in 0..0 |-> Absent]
    /\ write_strategy = [kind |-> "AllOrFail", rollback |-> FALSE]
    /\ return_policy = "WaitAll"
    /\ backend_timeout = "None"
    /\ primary_index = 0
    /\ read = NoRead
    /\ readonly = NoReadOnly
    /\ migration = NoMigration
    /\ \E p0 \in {Absent, Payload(0)}, s0 \in {Absent, Payload(0)}, wt \in BOOLEAN :
        fallback = [primary |-> p0, secondary |-> s0, write_through |-> wt,
                    pc |-> "idle", op |-> "none", buffer |-> Absent,
                    primary_result |-> NoResult,
                    trace |-> <<>>, result |-> NoResult, calls |-> 0,
                    secondary_before |-> s0]
    /\ pc = "idle"
    /\ buffer = Absent
    /\ required = 0
    /\ idx = 0
    /\ results = <<>>
    /\ successes = <<>>
    /\ failures = <<>>
    /\ rollback_errors = <<>>
    /\ rb = 0
    /\ result = NoResult
    /\ bg = <<>>
    /\ trace = <<>>
    /\ history = <<>>
    /\ quiet = TRUE
    /\ bg_failed = {}

writes_through_always(enabled) == TRUE

\* if self.write_through { both stores } else { primary only }
writes_through(enabled) == enabled

\* put: the primary's put; without write-through its result is returned.
FallbackPutPrimary ==
    /\ fallback.pc = "idle"
    /\ fallback.calls < MaxCalls
    /\ \E out \in StoreOutcomes("primary") :
        LET p == Payload(fallback.calls + 1)
            r == backend_put(fallback.primary, p, out)
            tr == <<StoreCall("primary", "put", out, r.res)>>
        IN  fallback' =
                IF writes_through(fallback.write_through)
                THEN [fallback EXCEPT !.primary = r.content, !.pc = "put_secondary",
                                      !.op = "put", !.buffer = p,
                                      !.primary_result = r.res,
                                      !.trace = tr, !.result = NoResult,
                                      !.calls = fallback.calls + 1,
                                      !.secondary_before = fallback.secondary]
                ELSE [fallback EXCEPT !.primary = r.content,
                                      !.op = "put", !.buffer = p,
                                      !.primary_result = r.res,
                                      !.trace = tr, !.result = r.res,
                                      !.calls = fallback.calls + 1,
                                      !.secondary_before = fallback.secondary]
    /\ UNCHANGED <<mirror, readonly, migration>>

write_through_result_strict(primary_result, secondary_result) ==
    IF primary_result.tag = "Ok" THEN secondary_result ELSE primary_result

\* The secondary's failure is only logged: `primary_result` is returned.
write_through_result(primary_result, secondary_result) == primary_result

\* put with write-through: the secondary's put of the same buffer, whose
\* failure is only logged; the primary's result is returned.
FallbackPutSecondary ==
    /\ fallback.pc = "put_secondary"
    /\ \E out \in StoreOutcomes("secondary") :
        LET r == backend_put(fallback.secondary, fallback.buffer, out)
        IN  fallback' =
                [fallback EXCEPT !.secondary = r.content, !.pc = "idle",
                                 !.trace = Append(fallback.trace,
                                                  StoreCall("secondary", "put", out, r.res)),
                                 !.result = write_through_result(
                                                fallback.primary_result, r.res)]
    /\ UNCHANGED <<mirror, readonly, migration>>

\* delete: the primary's delete, always followed by the secondary's.
FallbackDeletePrimary ==
    /\ fallback.pc = "idle"
    /\ fallback.calls < MaxCalls
    /\ \E out \in StoreOutcomes("primary") :
        LET r == backend_delete(fallback.primary, out)
        IN  fallback' =
                [fallback EXCEPT !.primary = r.content, !.pc = "delete_secondary",
                                 !.op = "delete", !.buffer = Absent,
                                 !.primary_result = r.res,
                                 !.trace = <<StoreCall("primary", "delete", out, r.res)>>,
                                 !.result = NoResult,
                                 !.calls = fallback.calls + 1,
                                 !.secondary_before = fallback.secondary]
    /\ UNCHANGED <<mirror, readonly, migration>>

fallback_delete_result_primary(primary_result, secondary_result) == primary_result

\* match (primary_result, secondary_result): Ok if either is Ok, else the
\* primary's error.
fallback_delete_result(primary_result, secondary_result) ==
    IF primary_result.tag = "Ok" \/ secondary_result.tag = "Ok" THEN OkR
    ELSE primary_result

FallbackDeleteSecondary ==
    /\ fallback.pc = "delete_secondary"
    /\ \E out \in StoreOutcomes("secondary") :
        LET r == backend_delete(fallback.secondary, out)
        IN  fallback' =
                [fallback EXCEPT !.secondary = r.content, !.pc = "idle",
                                 !.trace = Append(fallback.trace,
                                                  StoreCall("secondary", "delete", out, r.res)),
                                 !.result = fallback_delete_result(
                                                fallback.primary_result, r.res)]
    /\ UNCHANGED <<mirror, readonly, migration>>

\* A call of exists (folder_exists) to one of the two stores.
StoreExistsOutcomes(op, store) ==
    IF op = "exists" THEN StoreOutcomes(store)
    ELSE {Found(b) : b \in BOOLEAN} \cup (StoreOutcomes(store) \ {Healthy})

primary_settles_any_answer(r) == r.tag = "Ok"

\* match primary.exists(id) { Ok(true) => Ok(true), Ok(false) | Err(_) => secondary }
primary_settles(r) == r = OkV(TRUE)

\* exists / folder_exists: the primary's call.
FallbackExistsPrimary ==
    /\ fallback.pc = "idle"
    /\ \E op \in ExistsOps : \E out \in StoreExistsOutcomes(op, "primary") :
        LET r == backend_exists(op, fallback.primary, out)
            tr == <<StoreCall("primary", op, out, r)>>
        IN  fallback' =
                IF primary_settles(r)
                THEN [fallback EXCEPT !.op = op, !.buffer = Absent,
                                      !.primary_result = r, !.trace = tr, !.result = r,
                                      !.secondary_before = fallback.secondary]
                ELSE [fallback EXCEPT !.pc = "exists_secondary",
                                      !.op = op, !.buffer = Absent,
                                      !.primary_result = r, !.trace = tr,
                                      !.result = NoResult,
                                      !.secondary_before = fallback.secondary]
    /\ UNCHANGED <<mirror, readonly, migration>>

\* exists / folder_exists: the secondary's call, whose result is returned.
FallbackExistsSecondary ==
    /\ fallback.pc = "exists_secondary"
    /\ \E out \in StoreExistsOutcomes(fallback.op, "secondary") :
        LET r == backend_exists(fallback.op, fallback.secondary, out)
        IN  fallback' =
                [fallback EXCEPT !.pc = "idle",
                                 !.trace = Append(fallback.trace,
                                               StoreCall("secondary", fallback.op, out, r)),
                                 !.result = r]
    /\ UNCHANGED <<mirror, readonly, migration>>

NextFallback ==
    \/ FallbackPutPrimary
    \/ FallbackPutSecondary
    \/ FallbackDeletePrimary
    \/ FallbackDeleteSecondary
    \/ FallbackExistsPrimary
    \/ FallbackExistsSecondary

SpecFallback == InitFallback /\ [][NextFallback]_vars

\* ---------------------------------------------------------------- ReadOnlyStorage
\* The mirror's variables when the store under study is not a MirrorStorage.
MirrorUnused ==
    /\ backends = [i \in 0..0 |-> Absent]
    /\ write_strategy = [kind |-> "AllOrFail", rollback |-> FALSE]
    /\ return_policy = "WaitAll"
    /\ backend_timeout = "None"
    /\ primary_index = 0
    /\ read = NoRead
    /\ pc = "idle"
    /\ buffer = Absent
    /\ required = 0
    /\ idx = 0
    /\ results = <<>>
    /\ successes = <<>>
    /\ failures = <<>>
    /\ rollback_errors = <<>>
    /\ rb = 0
    /\ result = NoResult
    /\ bg = <<>>
    /\ trace = <<>>
    /\ history = <<>>
    /\ quiet = TRUE
    /\ bg_failed = {}

InnerCall(op, out, res) == [op |-> op, env |-> out.tag, res |-> res]

\* ReadOnlyStorage::new(inner): the inner store holds the object or not.
\* owner is the content as the inner store's owner last left it.
InitReadOnly ==
    /\ MirrorUnused
    /\ fallback = NoFallback
    /\ migration = NoMigration
    /\ \E c \in {Absent, Payload(0)} :
        readonly = [inner |-> c, owner |-> c, pc |-> "idle", op |-> "none",
                    trace |-> <<>>, result |-> NoResult, calls |-> 0]

ReadOnlyStorage_put_through(inner, p) ==
    [content |-> p, res |-> OkR, trace |-> <<InnerCall("put", Healthy, OkR)>>]

\* put: Err(PermissionDenied), the input is not read and inner is not called.
ReadOnlyStorage_put(inner, p) ==
    [content |-> inner,
     res |-> ErrR(PermissionDenied("write operations not allowed on read-only storage")),
     trace |-> <<>>]

ReadOnlyStorage_delete_through(inner) ==
    [content |-> Absent, res |-> OkR, trace |-> <<InnerCall("delete", Healthy, OkR)>>]

\* delete: Err(PermissionDenied), inner is not called.
ReadOnlyStorage_delete(inner) ==
    [content |-> inner,
     res |-> ErrR(PermissionDenied("delete operations not allowed on read-only storage")),
     trace |-> <<>>]

ReadOnlyIdle == readonly.pc = "idle" /\ readonly.calls < MaxCalls + 1

ReadOnlyPut ==
    /\ ReadOnlyIdle
    /\ \E k \in 0..1 :
        LET r == ReadOnlyStorage_put(readonly.inner, Payload(k))
        IN  readonly' = [readonly EXCEPT !.inner = r.content, !.op = "put",
                                         !.trace = r.trace, !.result = r.res,
                                         !.calls = readonly.calls + 1]
    /\ UNCHANGED <<mirror, fallback, migration>>

ReadOnlyDelete ==
    /\ ReadOnlyIdle
    /\ LET r == ReadOnlyStorage_delete(readonly.inner)
       IN  readonly' = [readonly EXCEPT !.inner = r.content, !.op = "delete",
                                        !.trace = r.trace, !.result = r.res,
                                        !.calls = readonly.calls + 1]
    /\ UNCHANGED <<mirror, fallback, migration>>

ReadOnlyReadOps == {"exists", "folder_exists", "get_into", "list"}

\* One call of the inner store.
inner_read(op, content, out) ==
    CASE op \in ExistsOps -> backend_exists(op, content, out)
      [] op = "get_into" -> backend_get_into(content, out)
      [] op = "list" -> backend_list(content, out)

ReadOnlyStorage_read_default(r) == IF r.tag = "Err" THEN OkV(FALSE) ELSE r

\* exists, folder_exists, get_into, list: self.inner.<op>(..).await
ReadOnlyStorage_read(r) == r

ReadOnlyRead ==
    /\ ReadOnlyIdle
    /\ \E op \in ReadOnlyReadOps :
       \E out \in (IF op = "folder_exists" THEN FolderOutcomes(0) ELSE ReadOutcomes(0)) :
        LET r == inner_read(op, readonly.inner, out)
        IN  readonly' = [readonly EXCEPT !.op = op,
                                         !.trace = <<InnerCall(op, out, r)>>,
                                         !.result = ReadOnlyStorage_read(r),
                                         !.calls = readonly.calls + 1]
    /\ UNCHANGED <<mirror, fallback, migration>>

\* The owner of the inner store writes to it or deletes from it directly
\* (ReadOnlyStorage::inner).
InnerWrite ==
    /\ ReadOnlyIdle
    /\ \E c \in {Absent, Payload(0), Payload(1)} :
        /\ c # readonly.inner
        /\ readonly' = [readonly EXCEPT !.inner = c, !.owner = c, !.op = "inner",
                                        !.trace = <<>>, !.result = NoResult,
                                        !.calls = readonly.calls + 1]
    /\ UNCHANGED <<mirror, fallback, migration>>

NextReadOnly ==
    \/ ReadOnlyPut
    \/ ReadOnlyDelete
    \/ ReadOnlyRead
    \/ InnerWrite

SpecReadOnly == InitReadOnly /\ [][NextReadOnly]_vars

\* ---------------------------------------------------------------- migrate
\* Identifiers are strings, modelled as sequences of characters; a store's
\* list yields them sorted.
MaxConcurrency == 2
IdOrder == << <<"a", "/", "1">>, <<"a", "/", "2">>, <<"b">> >>
Ids == {IdOrder[k] : k \in 1..Len(IdOrder)}
Prefixes == {<<"a">>, <<"b">>}
None == <<"None">>

\* {:?} of a String: its text in double quotes.
IdText(id) ==
    LET F[k \in 0..Len(id)] == IF k = 0 THEN "" ELSE F[k - 1] \o id[k]
    IN  "\"" \o F[Len(id)] \o "\""

\* String::starts_with
starts_with(id, p) == Len(p) <= Len(id) /\ SubSeq(id, 1, Len(p)) = p

matches_any(id, prefix) == TRUE

\* The filter of list: no prefix, or the id starts with it.
matches(id, prefix) == prefix = None \/ starts_with(id, prefix)

ConflictStrategy == {"Overwrite", "Skip", "Fail"}

MigrateOptions ==
    [prefix : {None} \cup Prefixes, conflict : ConflictStrategy,
     concurrency : 0..MaxConcurrency, delete_source : BOOLEAN]

\* ItemOutcome
Transferred(id) == [kind |-> "Transferred", id |-> id]
TransferredAndDeleted(id) == [kind |-> "TransferredAndDeleted", id |-> id]
TransferredDeleteFailed(id) == [kind |-> "TransferredDeleteFailed", id |-> id]
Skipped(id) == [kind |-> "Skipped", id |-> id]
ItemError(id, e) == [kind |-> "Error", id |-> id, error |-> e]

\* MigrationResult::new
MigrationResult_new == [transferred |-> <<>>, skipped |-> <<>>, deleted |-> <<>>, errors |-> <<>>]

total_attempted(res) == Len(res.transferred) + Len(res.skipped) + Len(res.errors)

\* Two stores that hold some of the ids, and the options of one migrate call.
InitMigrate ==
    /\ MirrorUnused
    /\ fallback = NoFallback
    /\ readonly = NoReadOnly
    /\ \E s0 \in [Ids -> {Absent, Payload(0)}], d0 \in [Ids -> {Absent, Payload(1)}],
          o \in MigrateOptions :
        migration = [source |-> s0, dest |-> d0, source0 |-> s0, dest0 |-> d0,
                     options |-> o, pc |-> "start", list |-> "none", ids |-> <<>>,
                     item |-> [id \in Ids |-> "none"],
                     calls |-> [id \in Ids |-> <<>>],
                     outcomes |-> <<>>, result |-> NoResult]

ItemCall(store, op, out) == [store |-> store, op |-> op, env |-> out.tag]

\* source.list(prefix), then the ids of the stream's Ok entries: an entry the
\* stream fails to read is logged and left out.
MigrateList ==
    /\ migration.pc = "start"
    /\ \E out \in DeleteOutcomes(0) :
        IF out.tag = "Fault"
        THEN migration' = [migration EXCEPT !.pc = "returned", !.list = out.tag,
                                            !.result = ErrR(out.error)]
        ELSE \E unread \in {{}} \cup {{id} : id \in Ids} :
                LET listed(id) == /\ migration.source[id] # Absent
                                  /\ matches(id, migration.options.prefix)
                                  /\ id \notin unread
                    ids == SelectSeq(IdOrder, listed)
                IN  migration' =
                        [migration EXCEPT !.pc = "running", !.list = out.tag, !.ids = ids,
                                          !.item = [id \in Ids |->
                                                      IF listed(id) THEN "pending" ELSE "none"]]
    /\ UNCHANGED <<mirror, fallback, readonly>>

\* concurrency.max(1)
concurrency == IF migration.options.concurrency < 1 THEN 1 ELSE migration.options.concurrency

InFlight == {id \in Ids : migration.item[id] \in {"copy", "delete"}}

\* buffer_unordered starts the next id of the list when a slot is free.
NextPending(id) ==
    /\ migration.pc = "running"
    /\ migration.item[id] = "pending"
    /\ Cardinality(InFlight) < concurrency
    /\ \A k \in 1..Len(migration.ids) :
          migration.item[migration.ids[k]] = "pending" =>
              \E j \in 1..k : migration.ids[j] = id

Finish(id, outcome, call) ==
    [migration EXCEPT !.item[id] = "done",
                      !.calls[id] = Append(migration.calls[id], call),
                      !.outcomes = Append(migration.outcomes, outcome)]

checks_conflict_never(conflict) == FALSE

\* if conflict != ConflictStrategy::Overwrite
checks_conflict(conflict) == conflict # "Overwrite"

\* The conflict check of one item: dest.exists(&id).
MigrateCheck ==
    \E id \in Ids :
        /\ NextPending(id)
        /\ checks_conflict(migration.options.conflict)
        /\ \E out \in DeleteOutcomes(1) :
            LET r == backend_exists("exists", migration.dest[id], out)
                call == ItemCall("dest", "exists", out)
            IN  migration' =
                    IF r = OkV(TRUE)
                    THEN IF migration.options.conflict = "Skip"
                         THEN Finish(id, Skipped(id), call)
                         ELSE Finish(id, ItemError(id, Generic(
                                  "Item already exists at destination: " \o IdText(id))), call)
                    ELSE IF r = OkV(FALSE)
                    THEN [migration EXCEPT !.item[id] = "copy",
                                           !.calls[id] = Append(migration.calls[id], call)]
                    ELSE Finish(id, ItemError(id, r.error), call)
        /\ UNCHANGED <<mirror, fallback, readonly>>

\* copy_to: source.get_into joined with dest.put; the first error ends it.
\* A failing side leaves the destination as it was.
CopyOutcomes == {Healthy, Fault(BackendError(0)), Fault(BackendError(1))}

copy_to(src, dst, out) ==
    CASE out.tag = "Fault" -> [content |-> dst, res |-> ErrR(out.error)]
      [] out.tag = "Healthy" /\ src = Absent -> [content |-> dst, res |-> ErrR(NotFound("id"))]
      [] out.tag = "Healthy" /\ src # Absent -> MemoryStorage_put(dst, src)

deletes_source_always(delete_source) == TRUE

\* if delete_source
deletes_source(delete_source) == delete_source

\* The copy of one item, entered directly under Overwrite.
MigrateCopy ==
    \E id \in Ids :
        /\ \/ migration.pc = "running" /\ migration.item[id] = "copy"
           \/ NextPending(id) /\ ~checks_conflict(migration.options.conflict)
        /\ \E out \in CopyOutcomes :
            LET r == copy_to(migration.source[id], migration.dest[id], out)
                call == ItemCall("both", "copy_to", out)
            IN  migration' =
                    IF r.res.tag = "Err"
                    THEN Finish(id, ItemError(id, r.res.error), call)
                    ELSE IF deletes_source(migration.options.delete_source)
                    THEN [migration EXCEPT !.item[id] = "delete",
                                           !.dest[id] = r.content,
                                           !.calls[id] = Append(migration.calls[id], call)]
                    ELSE [Finish(id, Transferred(id), call) EXCEPT !.dest[id] = r.content]
        /\ UNCHANGED <<mirror, fallback, readonly>>

\* source.delete(&id) after a successful copy; its failure is only logged.
MigrateDelete ==
    \E id \in Ids :
        /\ migration.pc = "running"
        /\ migration.item[id] = "delete"
        /\ \E out \in DeleteOutcomes(0) :
            LET r == backend_delete(migration.source[id], out)
                call == ItemCall("source", "delete", out)
            IN  migration' =
                    IF r.res.tag = "Ok"
                    THEN [Finish(id, TransferredAndDeleted(id), call)
                              EXCEPT !.source[id] = r.content]
                    ELSE Finish(id, TransferredDeleteFailed(id), call)
        /\ UNCHANGED <<mirror, fallback, readonly>>

collect_deleted_all(res, o) ==
    CASE o.kind = "Transferred" ->
            [res EXCEPT !.transferred = Append(@, o.id), !.deleted = Append(@, o.id)]
      [] o.kind = "TransferredAndDeleted" ->
            [res EXCEPT !.deleted = Append(@, o.id), !.transferred = Append(@, o.id)]
      [] o.kind = "TransferredDeleteFailed" ->
            [res EXCEPT !.transferred = Append(@, o.id), !.deleted = Append(@, o.id)]
      [] o.kind = "Skipped" -> [res EXCEPT !.skipped = Append(@, o.id)]
      [] o.kind = "Error" -> [res EXCEPT !.errors = Append(@, <<o.id, o.error>>)]

collect_dropping_errors(res, o) ==
    CASE o.kind = "Transferred" -> [res EXCEPT !.transferred = Append(@, o.id)]
      [] o.kind = "TransferredAndDeleted" ->
            [res EXCEPT !.deleted = Append(@, o.id), !.transferred = Append(@, o.id)]
      [] o.kind = "TransferredDeleteFailed" -> [res EXCEPT !.transferred = Append(@, o.id)]
      [] o.kind = "Skipped" -> [res EXCEPT !.skipped = Append(@, o.id)]
      [] o.kind = "Error" -> res

\* The match over one outcome that fills the result.
collect(res, o) ==
    CASE o.kind = "Transferred" -> [res EXCEPT !.transferred = Append(@, o.id)]
      [] o.kind = "TransferredAndDeleted" ->
            [res EXCEPT !.deleted = Append(@, o.id), !.transferred = Append(@, o.id)]
      [] o.kind = "TransferredDeleteFailed" -> [res EXCEPT !.transferred = Append(@, o.id)]
      [] o.kind = "Skipped" -> [res EXCEPT !.skipped = Append(@, o.id)]
      [] o.kind = "Error" -> [res EXCEPT !.errors = Append(@, <<o.id, o.error>>)]

\* Every item has finished: the outcomes, in completion order, become the result.
MigrateReturn ==
    /\ migration.pc = "running"
    /\ \A id \in Ids : migration.item[id] \in {"none", "done"}
    /\ LET F[k \in 0..Len(migration.outcomes)] ==
               IF k = 0 THEN MigrationResult_new
               ELSE collect(F[k - 1], migration.outcomes[k])
       IN  migration' = [migration EXCEPT !.pc = "returned",
                                          !.result = OkV(F[Len(migration.outcomes)])]
    /\ UNCHANGED <<mirror, fallback, readonly>>

NextMigrate ==
    \/ MigrateList
    \/ MigrateCheck
    \/ MigrateCopy
    \/ MigrateDelete
    \/ MigrateReturn

SpecMigrate == InitMigrate /\ [][NextMigrate]_vars

\* ---------------------------------------------------------------- observations
Backends == DOMAIN backends
PutReturned == pc = "idle" /\ history # <<>> /\ history[Len(history)] = "put"
DeleteReturned == pc = "idle" /\ history # <<>> /\ history[Len(history)] = "delete"
InPut == history # <<>> /\ history[Len(history)] = "put"
IsMirrorFailure(r) == r.tag = "Err" /\ r.error.kind = "MirrorFailure"
Details == result.error.details

\* Positions of the trace holding a call of kind op to backend i.
CallsTo(op, i) == {k \in 1..Len(trace) : trace[k].op = op /\ trace[k].b = i}
\* Backends whose put (delete) of this call returned Ok / did not.
PutOk == {i \in Backends : \E k \in CallsTo("put", i) : trace[k].res.tag = "Ok"}
PutFailed == {i \in Backends : \E k \in CallsTo("put", i) : trace[k].res.tag = "Err"}
DeleteOk == {i \in Backends : \E k \in CallsTo("delete", i) : trace[k].res.tag = "Ok"}
DeleteFailed == {i \in Backends : \E k \in CallsTo("delete", i) : trace[k].res.tag = "Err"}
Attempted == PutOk \cup PutFailed
Range(seq) == {seq[k] : k \in 1..Len(seq)}
Indices(entries) == {entries[k][1] : k \in 1..Len(entries)}
\* The (index, error) pairs of the failed deletes of the trace, in order.
FailedDeletes ==
    LET F[k \in 0..Len(trace)] ==
            IF k = 0 THEN <<>>
            ELSE IF trace[k].op = "delete" /\ trace[k].res.tag = "Err"
                 THEN Append(F[k - 1], <<trace[k].b, trace[k].res.error>>)
                 ELSE F[k - 1]
    IN F[Len(trace)]
AllHealthy == \A k \in 1..Len(trace) : trace[k].env = "Healthy"
\* The threshold of section 3: N, 1, or the least count that is more than half.
Threshold ==
    CASE write_strategy.kind = "AllOrFail" -> N
      [] write_strategy.kind = "AtLeastOne" -> 1
      [] write_strategy.kind = "Quorum" ->
            CHOOSE k \in 1..N : 2 * k > N /\ 2 * (k - 1) <= N

\* ---------------------------------------------------------------- claims
\* C1: put returns Ok only if at least required(strategy, N) backend puts of
\* the call succeeded, and MirrorFailure only if fewer did; every returned
\* MirrorFailure has len(successes) < required.  Put returns nothing else.
C1_PutOkIffThreshold ==
    PutReturned =>
        /\ result = OkR \/ IsMirrorFailure(result)
        /\ result = OkR => Cardinality(PutOk) >= Threshold
        /\ IsMirrorFailure(result) =>
              /\ Cardinality(PutOk) < Threshold
              /\ Len(Details.successes) < Threshold

C1_Witness ==
    /\ PutReturned
    /\ IsMirrorFailure(result)
    /\ N = 3
    /\ write_strategy.kind = "Quorum"
    /\ Len(Details.successes) = 1
    /\ Len(Details.failures) = 2

\* C2: required_successes(strategy, N) is N for AllOrFail, 1 for AtLeastOne
\* and floor(N/2)+1 for Quorum, for N in 1..10, whatever the rollback flag.
C2_RequiredTable ==
    pc = "put" =>
        required = CASE write_strategy.kind = "AllOrFail" -> N
                     [] write_strategy.kind = "AtLeastOne" -> 1
                     [] write_strategy.kind = "Quorum" ->
                           CHOOSE k \in 1..N : 2 * k > N /\ 2 * (k - 1) <= N

C2_Witness ==
    /\ pc = "put"
    /\ N = 10
    /\ write_strategy = [kind |-> "Quorum", rollback |-> TRUE]
    /\ required = 6

\* C3: under WaitAll every backend receives exactly one put per put call,
\* whatever the other outcomes, so a WaitAll MirrorFailure has
\* len(successes) + len(failures) = N.
C3_WaitAllAttemptsAll ==
    (InPut /\ return_policy = "WaitAll") =>
        /\ \A i \in Backends : Cardinality(CallsTo("put", i)) <= 1
        /\ pc \in {"idle", "rollback"} =>
              \A i \in Backends : Cardinality(CallsTo("put", i)) = 1
        /\ (pc = "idle" /\ IsMirrorFailure(result)) =>
              Len(Details.successes) + Len(Details.failures) = N

C3_Witness ==
    /\ PutReturned
    /\ return_policy = "WaitAll"
    /\ write_strategy.kind = "AtLeastOne"
    /\ N = 3
    /\ IsMirrorFailure(result)
    /\ Len(Details.failures) = 3

\* C4: a FastFail MirrorFailure that attempted fewer than N backends was
\* justified: len(successes) + (N - len(successes) - len(failures)) < required.
C4_FastFailJustified ==
    (PutReturned /\ return_policy = "FastFail" /\ IsMirrorFailure(result)) =>
        LET s == Len(Details.successes)
            f == Len(Details.failures)
        IN  /\ s + f = Cardinality(Attempted)
            /\ s + f < N => s + (N - s - f) < Threshold

C4_Witness ==
    /\ PutReturned
    /\ return_policy = "FastFail"
    /\ IsMirrorFailure(result)
    /\ N = 3
    /\ write_strategy.kind = "Quorum"
    /\ Len(Details.successes) = 0
    /\ Len(Details.failures) = 2

\* C5: under Optimistic, as soon as required backends have succeeded put
\* stops and returns Ok, and the Ok stands whatever the background puts do;
\* with 3 backends, Quorum, no timeout, on fresh backends, backends 0 and 1
\* succeeding and backend 2 failing in the background: Ok, backends 0 and 1
\* hold the payload and backend 2 does not hold the id.
C5_OptimisticOkStands ==
    (InPut /\ return_policy = "Optimistic") =>
        /\ pc = "put" => Cardinality(PutOk) < Threshold
        /\ (pc = "idle" /\ Cardinality(PutOk) >= Threshold) => result = OkR
        /\ ( /\ pc = "idle"
             /\ N = 3
             /\ write_strategy.kind = "Quorum"
             /\ backend_timeout = "None"
             /\ calls = 1
             /\ PutOk = {0, 1}
             /\ 2 \in bg_failed ) =>
              /\ result = OkR
              /\ backends[0] = buffer
              /\ backends[1] = buffer
              /\ backends[2] = Absent

C5_Witness ==
    /\ PutReturned
    /\ return_policy = "Optimistic"
    /\ N = 3
    /\ write_strategy.kind = "Quorum"
    /\ backend_timeout = "None"
    /\ calls = 1
    /\ PutOk = {0, 1}
    /\ bg_failed = {2}
    /\ result = OkR
    /\ backends[2] = Absent

\* C6: on a failed put with rollback enabled, under any policy, delete is
\* issued exactly once to each backend listed in successes and to no other:
\* never to a backend whose put failed or timed out or was not attempted.
C6_RollbackTargets ==
    InPut =>
        /\ \A i \in Backends :
              /\ Cardinality(CallsTo("delete", i)) <= 1
              /\ CallsTo("delete", i) # {} =>
                    i \in PutOk /\ should_rollback(write_strategy)
        /\ (pc = "idle" /\ IsMirrorFailure(result) /\ should_rollback(write_strategy)) =>
              \A i \in Backends :
                  Cardinality(CallsTo("delete", i)) =
                      IF i \in Range(Details.successes) THEN 1 ELSE 0

C6_Witness ==
    /\ PutReturned
    /\ return_policy = "FastFail"
    /\ N = 3
    /\ IsMirrorFailure(result)
    /\ Details.successes = <<0>>
    /\ PutFailed = {1}
    /\ Attempted = {0, 1}
    /\ CallsTo("delete", 0) # {}

\* C7: rollback never replaces the write failure: whether the rollback
\* deletes succeed or fail, put returns MirrorFailure with the successes and
\* failures it had before the rollback, and rollback_errors holds exactly
\* one entry (i, error) per failed rollback delete.
C7_RollbackAugments ==
    InPut =>
        /\ pc = "rollback" =>
              Range(successes) = PutOk /\ Indices(failures) = PutFailed
        /\ (pc = "idle" /\ \E i \in Backends : CallsTo("delete", i) # {}) =>
              /\ IsMirrorFailure(result)
              /\ Details.successes = successes
              /\ Details.failures = failures
              /\ Range(Details.successes) = PutOk
              /\ Indices(Details.failures) = PutFailed
              /\ Details.rollback_errors = FailedDeletes

C7_Witness ==
    /\ PutReturned
    /\ IsMirrorFailure(result)
    /\ N = 3
    /\ Details.successes = <<0, 1>>
    /\ Indices(Details.failures) = {2}
    /\ Details.rollback_errors = <<(<<0, BackendError(0)>>)>>
    /\ DeleteOk = {1}

C9_DeleteLenient ==
    (history # <<>> /\ history[Len(history)] = "delete") =>
        /\ \A i \in Backends : Cardinality(CallsTo("delete", i)) <= 1
        /\ (\E i \in Backends : CallsTo("delete", i) = {}) => result = NoResult
        /\ pc = "idle" =>
              /\ \A i \in Backends : Cardinality(CallsTo("delete", i)) = 1
              /\ result = OkR <=> DeleteOk # {}
              /\ DeleteOk = {} =>
                    \E k \in CallsTo("delete", 0) : result = trace[k].res

C9_Witness ==
    /\ DeleteReturned
    /\ N = 3
    /\ DeleteOk = {}
    /\ result = ErrR(BackendError(0))
    /\ trace[1].b = 2

\* C10: delete is idempotent on one backend and through the mirror: a
\* backend delete that meets no fault is Ok also when the id is missing, and
\* a mirror delete over such backends returns Ok - for an id that never
\* existed and for a repeated delete - leaving every backend without the id,
\* as a single delete does.
C10_DeleteIdempotent ==
    /\ \A k \in 1..Len(trace) :
          (trace[k].op = "delete" /\ trace[k].env = "Healthy") => trace[k].res = OkR
    /\ (DeleteReturned /\ AllHealthy) =>
          /\ result = OkR
          /\ quiet => \A i \in Backends : backends[i] = Absent

C10_Witness ==
    /\ DeleteReturned
    /\ history = <<"delete", "delete">>
    /\ AllHealthy
    /\ N = 3
    /\ result = OkR
    /\ \A i \in Backends : backends[i] = Absent

\* C11 (as stated): after delete returns Ok, with no put running concurrently,
\* no backend of the mirror contains the id.
C11_DeleteOkRemovesAll ==
    (DeleteReturned /\ result = OkR /\ quiet) =>
        \A i \in Backends : backends[i] = Absent

\* C11 (amended): after delete returns Ok, with no put running concurrently,
\* no backend whose delete succeeded contains the id; a backend whose delete
\* failed keeps what it held, so when every backend delete succeeded no
\* backend contains the id.
C11_DeleteOkRemovesDeleted ==
    (DeleteReturned /\ result = OkR /\ quiet) =>
        /\ \A i \in DeleteOk : backends[i] = Absent
        /\ DeleteFailed = {} => \A i \in Backends : backends[i] = Absent

C11_Witness ==
    /\ DeleteReturned
    /\ result = OkR
    /\ quiet
    /\ history = <<"put", "delete">>
    /\ N = 2
    /\ DeleteOk = {0}
    /\ DeleteFailed = {1}
    /\ backends[0] = Absent
    /\ backends[1] = Payload(1)

\* ---------------------------------------------------------------- read claims
ExistsReturned == read.op \in ExistsOps /\ read.pc = "idle"

\* C12: exists and folder_exists return the primary's answer when the
\* primary's call returns Ok, contacting no other backend; when it fails they
\* probe the backends in index order 0..N-1 and return the first Ok answer,
\* so with a failing primary and a healthy secondary that holds the object
\* exists yields true.
C12_ExistsRouting ==
    read.op \in ExistsOps =>
        LET tr == read.trace
        IN  /\ Len(tr) >= 1 => tr[1].b = primary_index
            /\ \A j \in 2..Len(tr) :
                  /\ tr[j - 1].res.tag = "Err"
                  /\ j <= N + 1 => tr[j].b = j - 2
            /\ (read.pc = "idle" /\ tr[1].res.tag = "Ok") =>
                  /\ Len(tr) = 1
                  /\ read.result = tr[1].res
            /\ (read.pc = "idle" /\ Len(tr) <= N + 1 /\ Len(tr) >= 2) =>
                  /\ tr[Len(tr)].res.tag = "Ok"
                  /\ read.result = tr[Len(tr)].res
            /\ ( /\ read.pc = "idle"
                 /\ read.op = "exists"
                 /\ N >= 2
                 /\ primary_index = 0
                 /\ backends[1] # Absent
                 /\ Len(tr) = 3
                 /\ tr[3].env = "Healthy" ) =>
                  read.result = OkV(TRUE)

C12_Witness ==
    /\ ExistsReturned
    /\ read.op = "exists"
    /\ N = 3
    /\ primary_index = 0
    /\ backends[0] = Absent
    /\ backends[1] # Absent
    /\ Len(read.trace) = 3
    /\ read.trace[1].res.tag = "Err"
    /\ read.trace[2].res.tag = "Err"
    /\ read.result = OkV(TRUE)

\* C13: when the primary's exists (or folder_exists) call fails and every
\* fallback probe also fails, the mirror returns the primary's original
\* error: the error produced by that first call to the primary.
C13_ReturnsOriginalError ==
    ( /\ ExistsReturned
      /\ Len(read.trace) >= N + 1
      /\ \A j \in 1..(N + 1) : read.trace[j].res.tag = "Err" ) =>
        read.result = read.trace[1].res

\* C14: get_into and list are served by the primary only: one call, to the
\* primary, whose result is the result; so when the primary lacks the object
\* (NotFound) or fails while a secondary holds it, get_into returns the error
\* and never the secondary's data.
C14_PrimaryOnly ==
    read.op \in {"get_into", "list"} =>
        LET tr == read.trace
            held == backends[primary_index]
        IN  /\ Len(tr) = 1
            /\ tr[1].b = primary_index
            /\ read.result = tr[1].res
            /\ tr[1].env = "Fault" => read.result.tag = "Err"
            /\ (read.op = "get_into" /\ tr[1].env = "Healthy") =>
                  read.result = IF held = Absent THEN ErrR(NotFound("id"))
                                ELSE [tag |-> "Ok", value |-> held]
            /\ (read.op = "list" /\ tr[1].env = "Healthy") =>
                  read.result = [tag |-> "Ok",
                                 value |-> IF held = Absent THEN <<>> ELSE <<"id">>]

C14_Witness ==
    /\ read.op = "get_into"
    /\ N = 2
    /\ primary_index = 0
    /\ backends[0] = Absent
    /\ backends[1] = Payload(1)
    /\ read.trace[1].env = "Healthy"
    /\ read.result = ErrR(NotFound("id"))

\* C15: with all backends healthy and WaitAll, put returns Ok for every
\* strategy, afterwards each of the N backends holds exactly the payload that
\* was put, having received one put of it, and get_into on the mirror returns
\* those bytes.
C15_HealthyWaitAll ==
    (PutReturned /\ return_policy = "WaitAll" /\ AllHealthy) =>
        /\ result = OkR
        /\ \A i \in Backends :
              /\ backends[i] = buffer
              /\ Cardinality(CallsTo("put", i)) = 1
        /\ buffer = Payload(calls)
        /\ (read.op = "get_into" /\ read.trace[1].env = "Healthy") =>
              read.result = [tag |-> "Ok", value |-> buffer]

C15_Witness ==
    /\ PutReturned
    /\ return_policy = "WaitAll"
    /\ AllHealthy
    /\ N = 3
    /\ write_strategy = [kind |-> "AllOrFail", rollback |-> FALSE]
    /\ calls = 2
    /\ \A i \in Backends : backends[i] = Payload(2)
    /\ read.op = "get_into"
    /\ read.result = [tag |-> "Ok", value |-> Payload(2)]

\* ---------------------------------------------------------------- background claims
\* The task spawned by the put in progress (or the last put), if it is running.
OwnTasks == {t \in 1..Len(bg) : bg[t].payload = buffer}
\* The next backend of the task spawned by the k-th call; N when that task
\* has made its last put (or the call spawned none).
TaskNext(k) ==
    IF \E t \in 1..Len(bg) : bg[t].payload = Payload(k)
    THEN bg[CHOOSE t \in 1..Len(bg) : bg[t].payload = Payload(k)].next
    ELSE N

\* C16 (as stated): under Optimistic no put to a remaining backend is started
\* before put has returned Ok to the caller: while put has spawned the task
\* and not yet returned, the task has made no put.
C16_ReturnBeforeBackground ==
    (return_policy = "Optimistic" /\ pc = "spawned") =>
        \E t \in OwnTasks : bg[t].next = idx

\* C16 (amended): under Optimistic no put to a remaining backend is started
\* before the threshold has been reached and the background task spawned:
\* while put is still writing (or rolling back) no task of this put exists and
\* no remaining backend holds its payload; a task exists only once the
\* threshold is met, and starts at the first backend not yet attempted.  Its
\* puts may start before put has returned Ok to the caller.
C16_SpawnBeforeBackground ==
    (InPut /\ return_policy = "Optimistic") =>
        /\ pc \in {"put", "rollback"} =>
              /\ OwnTasks = {}
              /\ \A i \in Backends : i >= idx => backends[i] # buffer
        /\ OwnTasks # {} =>
              /\ Cardinality(OwnTasks) = 1
              /\ pc = "spawned" \/ (pc = "idle" /\ result = OkR)
              /\ Cardinality(PutOk) >= Threshold
              /\ \A t \in OwnTasks : bg[t].next >= idx
              /\ Attempted = 0..(idx - 1)

C16_Witness ==
    /\ return_policy = "Optimistic"
    /\ pc = "spawned"
    /\ N = 3
    /\ write_strategy.kind = "AtLeastOne"
    /\ idx = 1
    /\ backends[1] = buffer
    /\ \E t \in OwnTasks : bg[t].next = 2

\* C17: after an Optimistic put has met the threshold at backend k, the task
\* it spawned starts at backend k+1 and each of its steps puts the payload to
\* its next backend and moves on by one, whatever the put returned, so that
\* every backend k+1..N-1 is eventually issued exactly one put, in increasing
\* index order: every task eventually makes its last put; and when every put
\* of the call and of its task was healthy, every backend then holds the
\* object (the payload of this put when no earlier task was still writing).
C17_BackgroundCompletes ==
    /\ [][\A k \in 1..MaxCalls :
            TaskNext(k)' # TaskNext(k) =>
                \/ /\ TaskNext(k) = N
                   /\ k = calls
                   /\ pc = "put" /\ pc' = "spawned"
                   /\ TaskNext(k)' = idx'
                   /\ idx' - 1 \in PutOk'
                \/ /\ TaskNext(k) < N
                   /\ TaskNext(k)' = TaskNext(k) + 1
                   /\ \A i \in Backends :
                         backends'[i] # backends[i] =>
                            i = TaskNext(k) /\ backends'[i] = Payload(k)]_vars
    /\ (bg # <<>>) ~> (bg = <<>>)
    /\ []( ( /\ pc = "idle"
             /\ calls >= 1
             /\ result = OkR
             /\ AllHealthy
             /\ bg_failed = {}
             /\ OwnTasks = {} ) =>
              /\ \A i \in Backends : backends[i] # Absent
              /\ quiet => \A i \in Backends : backends[i] = buffer )

C17_Witness ==
    /\ return_policy = "Optimistic"
    /\ PutReturned
    /\ result = OkR
    /\ N = 3
    /\ write_strategy.kind = "AtLeastOne"
    /\ backend_timeout = "Some"
    /\ calls = 1
    /\ Attempted = {0}
    /\ bg = <<>>
    /\ bg_failed = {1}
    /\ backends[2] = Payload(1)

\* ---------------------------------------------------------------- failure detail claims
\* Backends whose put of this call did not complete within the timeout.
TimedOut == {i \in Backends : \E k \in CallsTo("put", i) : trace[k].env = "Elapsed"}
\* Positions of the failures list of the returned MirrorFailure naming backend i.
FailureEntries(i) ==
    {k \in 1..Len(Details.failures) : Details.failures[k][1] = i}

\* C18: with a per-backend timeout configured, a backend put that does not
\* complete in time is a failure of that backend: its result is the timeout
\* error, it is listed in failures with that error and never in successes, it
\* does not count toward the threshold, and the put still returns Ok when the
\* other backends meet the threshold.
C18_TimeoutIsFailure ==
    InPut =>
        /\ TimedOut # {} => backend_timeout = "Some"
        /\ \A k \in 1..Len(trace) :
              trace[k].env = "Elapsed" => trace[k].res = ErrR(Generic("Backend timeout"))
        /\ \A i \in TimedOut : i \notin Range(successes)
        /\ (pc = "idle" /\ IsMirrorFailure(result)) =>
              \A i \in TimedOut :
                  /\ i \notin Range(Details.successes)
                  /\ Cardinality(FailureEntries(i)) = 1
                  /\ \A k \in FailureEntries(i) :
                        Details.failures[k][2] =
                            Generic("Generic storage error: Backend timeout")
        /\ (pc = "idle" /\ result = OkR) => Cardinality(PutOk \ TimedOut) >= Threshold
        /\ (pc = "idle" /\ Cardinality(PutOk \ TimedOut) >= Threshold) => result = OkR

C18_Witness ==
    /\ PutReturned
    /\ return_policy = "WaitAll"
    /\ write_strategy.kind = "AtLeastOne"
    /\ backend_timeout = "Some"
    /\ N = 2
    /\ TimedOut = {0}
    /\ PutOk = {1}
    /\ result = OkR

\* C19: in every MirrorFailure, each backend whose put failed has exactly one
\* entry (i, e) in failures, where e is the underlying error that backend's
\* put returned (same error kind) or a timeout error when it timed out.
C19_FailuresKeepErrors ==
    (PutReturned /\ IsMirrorFailure(result)) =>
        \A i \in PutFailed :
            /\ Cardinality(FailureEntries(i)) = 1
            /\ \A k \in FailureEntries(i) : \A c \in CallsTo("put", i) :
                  /\ trace[c].env = "Fault" =>
                        Details.failures[k][2].kind = trace[c].res.error.kind
                  /\ trace[c].env = "Elapsed" =>
                        Details.failures[k][2].kind = "Generic"

\* ---------------------------------------------------------------- FallbackStorage claims
\* C20: FallbackStorage::put with write-through disabled writes to the
\* primary only: the secondary receives no call and holds what it held when
\* put was called, and the result is the primary's result.
C20_PutPrimaryOnly ==
    (fallback.pc # "none" /\ fallback.op = "put" /\ ~fallback.write_through) =>
        /\ fallback.pc = "idle"
        /\ fallback.secondary = fallback.secondary_before
        /\ Len(fallback.trace) = 1
        /\ fallback.trace[1].store = "primary"
        /\ fallback.trace[1].op = "put"
        /\ fallback.result = fallback.trace[1].res
        /\ fallback.trace[1].env = "Healthy" =>
              /\ fallback.result = OkR
              /\ fallback.primary = Payload(fallback.calls)
        /\ fallback.trace[1].env = "Fault" => fallback.result = ErrR(BackendError(0))

C20_Witness ==
    /\ fallback.pc = "idle"
    /\ fallback.op = "put"
    /\ ~fallback.write_through
    /\ fallback.calls = 1
    /\ fallback.result = OkR
    /\ fallback.primary = Payload(1)
    /\ fallback.secondary_before = Payload(0)
    /\ fallback.secondary = Payload(0)

FallbackReturned(op) == fallback.pc = "idle" /\ fallback.op = op

\* C21: FallbackStorage::put with write-through enabled puts the same payload
\* to the primary and then to the secondary whatever the primary returned,
\* and returns exactly the primary's result: a secondary failure is never
\* surfaced, and when both succeed both hold the same bytes.
C21_WriteThrough ==
    (fallback.pc # "none" /\ fallback.op = "put" /\ fallback.write_through) =>
        LET tr == fallback.trace
        IN  /\ Len(tr) >= 1
            /\ tr[1].store = "primary" /\ tr[1].op = "put"
            /\ fallback.pc = "put_secondary" => Len(tr) = 1
            /\ tr[1].env = "Healthy" => fallback.primary = fallback.buffer
            /\ fallback.pc = "idle" =>
                  /\ Len(tr) = 2
                  /\ tr[2].store = "secondary" /\ tr[2].op = "put"
                  /\ fallback.result = tr[1].res
                  /\ tr[1].env = "Healthy" => fallback.result = OkR
                  /\ tr[2].env = "Healthy" => fallback.secondary = fallback.buffer
                  /\ (tr[1].res = OkR /\ tr[2].res = OkR) =>
                        /\ fallback.primary = Payload(fallback.calls)
                        /\ fallback.secondary = fallback.primary

C21_Witness ==
    /\ FallbackReturned("put")
    /\ fallback.write_through
    /\ fallback.trace[1].res = OkR
    /\ fallback.trace[2].res = ErrR(BackendError(1))
    /\ fallback.result = OkR
    /\ fallback.primary = Payload(1)
    /\ fallback.secondary = Absent

\* C22: FallbackStorage::exists and folder_exists return true without
\* contacting the secondary when the primary answers Ok(true); when the
\* primary answers Ok(false) or fails they return the secondary's result; so
\* with both healthy exists is true iff the id is in the primary or in the
\* secondary.
C22_FallbackExists ==
    (fallback.pc # "none" /\ fallback.op \in ExistsOps) =>
        LET tr == fallback.trace
            yes == [tag |-> "Ok", value |-> TRUE]
        IN  /\ tr[1].store = "primary"
            /\ fallback.pc = "exists_secondary" => Len(tr) = 1 /\ tr[1].res # yes
            /\ fallback.pc = "idle" =>
                  /\ tr[1].res = yes => Len(tr) = 1 /\ fallback.result = yes
                  /\ tr[1].res # yes =>
                        /\ Len(tr) = 2
                        /\ tr[2].store = "secondary"
                        /\ fallback.result = tr[2].res
                  /\ ( /\ fallback.op = "exists"
                       /\ \A k \in 1..Len(tr) : tr[k].env = "Healthy" ) =>
                        fallback.result =
                            [tag |-> "Ok",
                             value |-> (fallback.primary # Absent
                                        \/ fallback.secondary # Absent)]

C22_Witness ==
    /\ FallbackReturned("exists")
    /\ fallback.primary = Absent
    /\ fallback.secondary = Payload(0)
    /\ Len(fallback.trace) = 2
    /\ fallback.trace[1].res = [tag |-> "Ok", value |-> FALSE]
    /\ fallback.result = [tag |-> "Ok", value |-> TRUE]

\* C23: FallbackStorage::delete always issues the delete to the primary and
\* to the secondary, returns Ok if either succeeds and the primary's error
\* only when both fail; with both healthy neither holds the id afterwards,
\* and deleting a missing id returns Ok.
C23_FallbackDelete ==
    (fallback.pc # "none" /\ fallback.op = "delete") =>
        LET tr == fallback.trace
        IN  /\ tr[1].store = "primary" /\ tr[1].op = "delete"
            /\ fallback.pc = "delete_secondary" => Len(tr) = 1
            /\ fallback.pc = "idle" =>
                  /\ Len(tr) = 2
                  /\ tr[2].store = "secondary" /\ tr[2].op = "delete"
                  /\ fallback.result = OkR <=> (tr[1].res = OkR \/ tr[2].res = OkR)
                  /\ fallback.result # OkR => fallback.result = ErrR(BackendError(0))
                  /\ (tr[1].env = "Healthy" /\ tr[2].env = "Healthy") =>
                        /\ fallback.result = OkR
                        /\ fallback.primary = Absent
                        /\ fallback.secondary = Absent

C23_Witness ==
    /\ FallbackReturned("delete")
    /\ fallback.calls = 2
    /\ fallback.secondary_before = Absent
    /\ fallback.trace[1].res = ErrR(BackendError(0))
    /\ fallback.trace[2].res = OkR
    /\ fallback.result = OkR
    /\ fallback.primary # Absent

\* C24: through ReadOnlyStorage put and delete return PermissionDenied without
\* a call of the inner store (also for a missing id), so the inner store holds
\* what its owner left there after any sequence of wrapper calls; exists,
\* folder_exists, get_into and list make one call of the inner store and
\* return its result as it is.
C24_ReadOnly ==
    readonly.pc # "none" =>
        /\ readonly.inner = readonly.owner
        /\ readonly.op \in {"put", "delete"} =>
              /\ readonly.result.tag = "Err"
              /\ readonly.result.error.kind = "PermissionDenied"
              /\ readonly.result.error # BackendError(0)
              /\ readonly.trace = <<>>
        /\ readonly.op \in ReadOnlyReadOps =>
              /\ Len(readonly.trace) = 1
              /\ readonly.trace[1].op = readonly.op
              /\ readonly.result = readonly.trace[1].res
              /\ (readonly.trace[1].env = "Healthy" /\ readonly.op = "exists") =>
                    readonly.result = OkV(readonly.inner # Absent)
              /\ (readonly.trace[1].env = "Healthy" /\ readonly.op = "get_into") =>
                    readonly.result = MemoryStorage_get_into(readonly.inner)
              /\ (readonly.trace[1].env = "Healthy" /\ readonly.op = "list") =>
                    readonly.result = MemoryStorage_list(readonly.inner)

\* A delete of a missing id was rejected after the owner had changed the
\* inner store.
C24_Witness ==
    /\ readonly.pc # "none"
    /\ readonly.op = "delete"
    /\ readonly.inner = Absent
    /\ readonly.calls = 3
    /\ readonly.result.tag = "Err"

\* ---------------------------------------------------------------- migrate, observed
MigrateReturnedOk == migration.pc = "returned" /\ migration.result.tag = "Ok"
Count(seq, x) == Cardinality({k \in 1..Len(seq) : seq[k] = x})
ErrorIds(res) == [k \in 1..Len(res.errors) |-> res.errors[k][1]]
Listed == IF migration.pc = "none" THEN {} ELSE Range(migration.ids)
ItemCalls(id, op) == {k \in 1..Len(migration.calls[id]) : migration.calls[id][k].op = op}
ItemCalled(id, op, env) ==
    \E k \in ItemCalls(id, op) : migration.calls[id][k].env = env
InTransferred(id) == Count(migration.result.value.transferred, id) > 0
InSkipped(id) == Count(migration.result.value.skipped, id) > 0
InErrors(id) == Count(ErrorIds(migration.result.value), id) > 0
InDeleted(id) == Count(migration.result.value.deleted, id) > 0

\* C25: migrate returns Err exactly when source.list fails, and then no item
\* was touched. Otherwise every listed id is worked on (each of its calls made
\* once) whatever happened to the others, an unlisted id is not, work never
\* stops while an item is unfinished, and in the result every listed id is
\* once in exactly one of transferred, skipped and errors, so that
\* total_attempted is the number of listed ids.
C25_BestEffort ==
    migration.pc # "none" =>
        /\ migration.pc = "returned" =>
              /\ migration.result.tag = "Err" <=> migration.list = "Fault"
              /\ migration.result.tag = "Err" =>
                    \A id \in Ids : migration.calls[id] = <<>>
        /\ (migration.pc = "running" /\ \E id \in Listed : migration.item[id] # "done") =>
              \/ InFlight # {}
              \/ \E id \in Ids : NextPending(id)
        /\ \A id \in Ids : \A op \in {"exists", "copy_to", "delete"} :
              Cardinality(ItemCalls(id, op)) <= 1
        /\ \A id \in Ids \ Listed : migration.calls[id] = <<>>
        /\ MigrateReturnedOk =>
              /\ \A id \in Ids :
                    Count(migration.result.value.transferred, id)
                      + Count(migration.result.value.skipped, id)
                      + Count(ErrorIds(migration.result.value), id)
                    = IF id \in Listed THEN 1 ELSE 0
              /\ total_attempted(migration.result.value) = Len(migration.ids)
              /\ \A id \in Listed : migration.calls[id] # <<>>

\* The first listed id failed and the second was transferred after it.
C25_Witness ==
    /\ MigrateReturnedOk
    /\ Len(migration.ids) >= 2
    /\ migration.outcomes[1].kind = "Error"
    /\ migration.outcomes[1].id = migration.ids[1]
    /\ InTransferred(migration.ids[2])
    /\ Len(migration.outcomes) = Len(migration.ids)

ExistedAtDest(id) == id \in Listed /\ migration.dest0[id] # Absent
AbsentAtDest(id) == id \in Listed /\ migration.dest0[id] = Absent

\* C26 as stated, without regard to failing calls: under Skip or Fail a listed
\* id that exists in the destination is not written and ends in skipped
\* (Skip) or errors (Fail), a listed id absent from it ends in transferred;
\* under Overwrite a transferred id's destination content is the source's.
C26_ConflictRecorded ==
    migration.pc # "none" =>
        /\ migration.options.conflict # "Overwrite" =>
              /\ \A id \in Ids : ExistedAtDest(id) =>
                    /\ migration.dest[id] = migration.dest0[id]
                    /\ ItemCalls(id, "copy_to") = {}
                    /\ MigrateReturnedOk =>
                          IF migration.options.conflict = "Skip"
                          THEN InSkipped(id) ELSE InErrors(id)
              /\ \A id \in Ids : (AbsentAtDest(id) /\ MigrateReturnedOk) => InTransferred(id)
        /\ (migration.options.conflict = "Overwrite" /\ MigrateReturnedOk) =>
              \A id \in Ids : InTransferred(id) =>
                    migration.dest[id] = migration.source0[id]

\* C26: under Skip or Fail a listed id that exists in the destination gets no
\* copy and keeps its destination content; it ends in skipped (Skip) or in
\* errors (Fail) when dest.exists answers, and in errors under either strategy
\* when dest.exists fails. A listed id absent from the destination is copied
\* once dest.exists has answered and ends in transferred exactly when the
\* check and the copy both succeed, in errors otherwise. Under Overwrite a
\* transferred id's destination content is the source's.
C26_ConflictChecked ==
    migration.pc # "none" =>
        /\ migration.options.conflict # "Overwrite" =>
              /\ \A id \in Ids : ExistedAtDest(id) =>
                    /\ migration.dest[id] = migration.dest0[id]
                    /\ ItemCalls(id, "copy_to") = {}
                    /\ MigrateReturnedOk =>
                          /\ ~InTransferred(id)
                          /\ ItemCalled(id, "exists", "Healthy") =>
                                IF migration.options.conflict = "Skip"
                                THEN InSkipped(id) ELSE InErrors(id)
                          /\ ItemCalled(id, "exists", "Fault") => InErrors(id)
              /\ \A id \in Ids : AbsentAtDest(id) =>
                    /\ (ItemCalled(id, "exists", "Healthy") /\ migration.item[id] = "done")
                          => ItemCalls(id, "copy_to") # {}
                    /\ MigrateReturnedOk =>
                          /\ InTransferred(id) <=>
                                /\ ItemCalled(id, "exists", "Healthy")
                                /\ ItemCalled(id, "copy_to", "Healthy")
                          /\ ~InTransferred(id) => InErrors(id)
                          /\ InTransferred(id) =>
                                migration.dest[id] = migration.source0[id]
        /\ (migration.options.conflict = "Overwrite" /\ MigrateReturnedOk) =>
              \A id \in Ids : InTransferred(id) =>
                    migration.dest[id] = migration.source0[id]

\* Under Fail an existing id went to errors and an absent one was transferred.
C26_Witness ==
    /\ MigrateReturnedOk
    /\ migration.options.conflict = "Fail"
    /\ \E id \in Ids : ExistedAtDest(id) /\ InErrors(id)
    /\ \E id \in Ids : AbsentAtDest(id) /\ InTransferred(id)

\* C27: with delete_source the source's delete is called only for a listed id
\* (so one that matches the prefix) right after its successful copy, and only
\* such a delete changes the source; every id in deleted is in transferred,
\* an id whose delete failed is in transferred and in neither deleted nor
\* errors, and the source content of an id that was not transferred is
\* unchanged. Without delete_source the source is unchanged, no delete is
\* called and deleted is empty.
C27_DeleteSource ==
    migration.pc # "none" =>
        /\ \A id \in Ids :
              /\ ItemCalls(id, "delete") # {} =>
                    /\ migration.options.delete_source
                    /\ id \in Listed
                    /\ matches(id, migration.options.prefix)
                    /\ ItemCalled(id, "copy_to", "Healthy")
                    /\ migration.dest[id] = migration.source0[id]
              /\ migration.source[id] # migration.source0[id] =>
                    /\ ItemCalled(id, "delete", "Healthy")
                    /\ migration.source[id] = Absent
        /\ ~migration.options.delete_source =>
              /\ migration.source = migration.source0
              /\ MigrateReturnedOk => migration.result.value.deleted = <<>>
        /\ MigrateReturnedOk =>
              \A id \in Ids :
                  /\ InDeleted(id) => InTransferred(id) /\ migration.source[id] = Absent
                  /\ InDeleted(id) <=> ItemCalled(id, "delete", "Healthy")
                  /\ ItemCalled(id, "delete", "Fault") =>
                        InTransferred(id) /\ ~InDeleted(id) /\ ~InErrors(id)
                  /\ ~InTransferred(id) => migration.source[id] = migration.source0[id]

\* With a prefix, one id was moved, the delete of another failed, and an id
\* outside the prefix stayed in the source.
C27_Witness ==
    /\ MigrateReturnedOk
    /\ migration.options.delete_source
    /\ migration.options.prefix # None
    /\ \E id \in Ids : InDeleted(id)
    /\ \E id \in Ids : ItemCalled(id, "delete", "Fault") /\ InTransferred(id)
    /\ \E id \in Ids : /\ ~matches(id, migration.options.prefix)
                       /\ migration.source[id] # Absent

\* ---------------------------------------------------------------- put policies compared
\* The put calls and the delete calls of the running (or last) call, in order.
TracePuts == SelectSeq(trace, LAMBDA c : c.op = "put")
TraceDeletes == SelectSeq(trace, LAMBDA c : c.op = "delete")
\* What WaitAll makes of the results of the put calls of the trace.
WaitAllOutcome ==
    evaluate_write_results([k \in 1..Len(TracePuts) |-> TracePuts[k].res], write_strategy, N)
\* The backends WaitAll rolls back after those results.
WaitAllRollback ==
    IF should_rollback(write_strategy) /\ has_successes(WaitAllOutcome.details)
    THEN WaitAllOutcome.details.successes ELSE <<>>
PutFailing == InPut /\ (pc = "rollback" \/ (pc = "idle" /\ result.tag = "Err"))

\* C28: under Optimistic a put whose successes never reach the threshold
\* fails as WaitAll does on the same backend outcomes: every backend 0..N-1
\* was put to once, in order; the successes and failures are those of
\* evaluate_write_results on the N results; the deletes issued are those of
\* the rollback of these successes (none without the rollback flag or without
\* a success); the returned MirrorFailure carries these lists and the failed
\* deletes; and the call has spawned no background task. A put that made all
\* N puts without reaching the threshold does fail.
C28_OptimisticFailsLikeWaitAll ==
    (return_policy = "Optimistic" /\ InPut) =>
        /\ (pc = "idle" /\ Len(TracePuts) = N /\ ~WaitAllOutcome.ok) => PutFailing
        /\ PutFailing =>
              /\ [k \in 1..Len(TracePuts) |-> TracePuts[k].b] = [k \in 1..N |-> k - 1]
              /\ ~WaitAllOutcome.ok
              /\ successes = WaitAllOutcome.details.successes
              /\ failures = WaitAllOutcome.details.failures
              /\ OwnTasks = {}
              /\ Len(TraceDeletes) <= Len(WaitAllRollback)
              /\ \A k \in 1..Len(TraceDeletes) : TraceDeletes[k].b = WaitAllRollback[k]
              /\ pc = "idle" =>
                    /\ Len(TraceDeletes) = Len(WaitAllRollback)
                    /\ result = ErrR(MirrorFailure(MirrorFailureDetails(
                                   WaitAllOutcome.details.successes,
                                   WaitAllOutcome.details.failures,
                                   FailedDeletes)))

\* An Optimistic put with rollback failed after a success and a failure,
\* and one of its rollback deletes failed.
C28_Witness ==
    /\ return_policy = "Optimistic"
    /\ PutReturned
    /\ IsMirrorFailure(result)
    /\ Details.successes # <<>>
    /\ Details.failures # <<>>
    /\ Details.rollback_errors # <<>>
    /\ Len(TracePuts) = N

\* Successes among the first k puts of the call, and whether success has
\* become impossible after them (successes so far + backends not yet
\* attempted < required).
SuccessesIn(k) == Cardinality({j \in 1..k : TracePuts[j].res.tag = "Ok"})
DoomedAfter(k) == SuccessesIn(k) + (N - k) < required_successes(write_strategy, N)
TraceOkIndices == ok_indices([k \in 1..Len(TracePuts) |-> TracePuts[k].res])
InFastFailPut == return_policy = "FastFail" /\ InPut

\* C29: under FastFail the puts of a call go to backends 0, 1, .. in order and
\* none is issued after an outcome that made success impossible; at such an
\* outcome the put fails: it rolls back the successes so far when the strategy
\* has the rollback flag (and there are some) and returns MirrorFailure with
\* these successes. A FastFail put fails only at such an outcome, and with
\* AllOrFail the first failing put is the last put of the call.
C29_FastFailAborts ==
    InFastFailPut =>
        /\ \A k \in 1..Len(TracePuts) : TracePuts[k].b = k - 1
        /\ \A k \in 1..(Len(TracePuts) - 1) : ~DoomedAfter(k)
        /\ (TracePuts # <<>> /\ DoomedAfter(Len(TracePuts))) => PutFailing
        /\ PutFailing =>
              /\ TracePuts # <<>>
              /\ DoomedAfter(Len(TracePuts))
              /\ Len(TraceDeletes) <=
                    (IF should_rollback(write_strategy) THEN Len(TraceOkIndices) ELSE 0)
              /\ \A k \in 1..Len(TraceDeletes) : TraceDeletes[k].b = TraceOkIndices[k]
              /\ pc = "idle" =>
                    /\ IsMirrorFailure(result)
                    /\ Details.successes = TraceOkIndices
                    /\ Len(TraceDeletes) =
                          (IF should_rollback(write_strategy) THEN Len(TraceOkIndices) ELSE 0)
        /\ write_strategy.kind = "AllOrFail" =>
              \A k \in 1..Len(TracePuts) :
                  TracePuts[k].res.tag = "Err" => k = Len(TracePuts)

\* A quorum put over three backends was given up after the second failure,
\* with the third backend never put to, and the first one rolled back.
C29_Witness ==
    /\ InFastFailPut
    /\ PutReturned
    /\ IsMirrorFailure(result)
    /\ N = 3
    /\ Len(TracePuts) < N
    /\ TraceDeletes # <<>>

\* C30: under FastFail no put of a call is issued once the successes have
\* reached the threshold: the put that reaches it is the last call of the
\* put, which returns Ok at once; the backends after it get no put from the
\* call, no background task exists, and no step of the put changes the
\* content of a backend other than the one being put to, so the later
\* backends hold what they held before the call.
C30_FastFailStopsAtThreshold ==
    /\ [](InFastFailPut =>
            /\ \A k \in 1..(Len(TracePuts) - 1) :
                  SuccessesIn(k) < required_successes(write_strategy, N)
            /\ SuccessesIn(Len(TracePuts)) >= required_successes(write_strategy, N) =>
                  /\ pc = "idle"
                  /\ result = OkR
                  /\ TraceDeletes = <<>>
                  /\ trace[Len(trace)].res.tag = "Ok"
                  /\ \A i \in Backends : i >= Len(TracePuts) =>
                        CallsTo("put", i) = {} /\ backends[i] # buffer
            /\ bg = <<>>)
    /\ [][(return_policy = "FastFail" /\ pc = "put") =>
            \A i \in Backends : i # idx => backends'[i] = backends[i]]_vars

\* The second put returned Ok after its first backend, leaving the second
\* backend with the payload of the first put.
C30_Witness ==
    /\ InFastFailPut
    /\ PutReturned
    /\ result = OkR
    /\ Len(TracePuts) = 1
    /\ N >= 2
    /\ buffer = Payload(2)
    /\ backends[1] = Payload(1)

\* ---------------------------------------------------------------- rollback and failure detail
\* C31: a put issues a delete only after it has failed, under a strategy with
\* the rollback flag, and with at least one backend put of the call having
\* succeeded; a put that returns Ok, and any put under rollback:false, issues
\* no delete and has no rollback error; every index of rollback_errors of a
\* returned MirrorFailure is one of its successes.
C31_RollbackOnlyOnFailure ==
    InPut =>
        /\ TraceDeletes # <<>> =>
              /\ should_rollback(write_strategy)
              /\ PutFailing
              /\ PutOk # {}
              /\ result # OkR
        /\ (pc = "idle" /\ result = OkR) =>
              TraceDeletes = <<>> /\ rollback_errors = <<>>
        /\ ~should_rollback(write_strategy) =>
              /\ TraceDeletes = <<>>
              /\ rollback_errors = <<>>
              /\ pc # "rollback"
              /\ (pc = "idle" /\ IsMirrorFailure(result)) => Details.rollback_errors = <<>>
        /\ (pc = "idle" /\ IsMirrorFailure(result)) =>
              /\ Indices(Details.rollback_errors) \subseteq Range(Details.successes)
              /\ Details.rollback_errors # <<>> => should_rollback(write_strategy)
              /\ Details.successes = <<>> => TraceDeletes = <<>>

\* A put failed under rollback:true with two successes, and the rollback
\* delete of one of them failed.
C31_Witness ==
    /\ PutReturned
    /\ IsMirrorFailure(result)
    /\ should_rollback(write_strategy)
    /\ Len(Details.successes) = 2
    /\ Len(Details.rollback_errors) = 1
    /\ Len(TraceDeletes) = 2

Increasing(seq) == \A j, k \in 1..Len(seq) : j < k => seq[j] < seq[k]
FailureIndices(details) == [k \in 1..Len(details.failures) |-> details.failures[k][1]]

\* C32: in a MirrorFailure returned by put, under every policy, the indices
\* of successes and of failures are backend indices below N, each list is in
\* increasing index order, no index is in both, successes.len() +
\* failures.len() <= N, and total_backends() is the number of backends the
\* call has put to, which is below N only under FastFail.
C32_FailureDetailShape ==
    (PutReturned /\ IsMirrorFailure(result)) =>
        /\ Range(Details.successes) \subseteq 0..(N - 1)
        /\ Indices(Details.failures) \subseteq 0..(N - 1)
        /\ Increasing(Details.successes)
        /\ Increasing(FailureIndices(Details))
        /\ Range(Details.successes) \cap Indices(Details.failures) = {}
        /\ Len(Details.successes) + Len(Details.failures) <= N
        /\ total_backends(Details) = Cardinality(Attempted)
        /\ total_backends(Details) = Len(TracePuts)
        /\ Range(Details.successes) \cup Indices(Details.failures) = Attempted
        /\ total_backends(Details) < N => return_policy = "FastFail"

\* A FastFail put gave up before the last backend: total_backends() is 2 of 3.
C32_Witness ==
    /\ PutReturned
    /\ IsMirrorFailure(result)
    /\ return_policy = "FastFail"
    /\ N = 3
    /\ total_backends(Details) = 2
    /\ Details.rollback_errors # <<>>

\* ---------------------------------------------------------------- dispatch
\* The backend puts of the running WaitAll call that were issued, and those
\* that have completed (or timed out).
PutsIssued == idx + (IF pc = "awaiting" THEN 1 ELSE 0)
PutsCompleted == Len(TracePuts)
InWaitAllPut == InPut /\ return_policy = "WaitAll"

WrittenByPut ==
    PutOk \cup {i \in Backends : i >= idx /\ OwnTasks = {} /\ i \notin bg_failed}

\* C34: a later put wins. When an Optimistic put has returned Ok and all
\* background work has finished, every backend this put wrote to holds this
\* put's payload: no task of an earlier put (a task is spawned only on the
\* path that returns Ok) has written its own payload over it.
C34_LaterPutWins ==
    ( /\ return_policy = "Optimistic"
      /\ PutReturned
      /\ result = OkR
      /\ calls >= 2
      /\ bg = <<>> ) =>
        \A i \in WrittenByPut : backends[i] = buffer

\* C35: a delete wins over the puts before it. When a delete that followed
\* an Optimistic put has returned Ok, every backend delete of it was healthy
\* and all background work has finished, no backend holds the object: no
\* task of an earlier put has written the object back.
C35_DeleteWins ==
    ( /\ return_policy = "Optimistic"
      /\ DeleteReturned
      /\ result = OkR
      /\ calls >= 2
      /\ history[calls - 1] = "put"
      /\ AllHealthy
      /\ DeleteOk = Backends
      /\ bg = <<>> ) =>
        \A i \in Backends : backends[i] = Absent

\* ---------------------------------------------------------------- puts with a timeout, over backends that may never answer
\* A mirror built with a per-backend timeout. A backend put that never
\* completes is the Elapsed outcome: the timer fires and the loop goes on.
InitTimeout == Init /\ backend_timeout = "Some"

\* rollback_writes awaits backend.delete(id) bare, without the timer: when
\* the backend never completes the delete, the await never returns and the
\* caller of put stays in rollback_writes for good (position "stalled").
RollbackStalls ==
    /\ pc = "rollback"
    /\ rb < Len(rollback_targets(successes, failures))
    /\ pc' = "stalled"
    /\ UNCHANGED <<backends, cfg, locals, result, bg, trace, history, wrappers, read,
                   quiet, bg_failed>>

\* The steps of the caller inside put.
PutStep ==
    \/ PutWaitAll
    \/ PutOptimistic
    \/ PutOptimisticReturn
    \/ PutFastFail
    \/ Rollback
    \/ RollbackStalls

NextTimeout ==
    \/ PutBegin
    \/ PutStep
    \/ Background

\* The runtime keeps polling the caller's future and the spawned tasks: a
\* step that stays possible is eventually taken.
SpecTimeout ==
    InitTimeout /\ [][NextTimeout]_vars /\ WF_vars(PutStep) /\ WF_vars(Background)

\* C36: with a per-backend timeout configured, every put that was started
\* eventually returns to its caller, whatever the backends do.
C36_PutReturns == (pc = "put") ~> (pc = "idle")

\* ---------------------------------------------------------------- what a failed put leaves behind
\* The caller's step has made a backend call of kind op: the call is the new
\* last entry of the trace (the puts of background tasks are not traced).
Called(op) ==
    /\ Len(trace') = Len(trace) + 1
    /\ trace' = Append(trace, trace'[Len(trace')])
    /\ trace'[Len(trace')].op = op
LastCall == trace'[Len(trace')]
\* The successes of the returned failure whose rollback delete succeeded.
RolledBack == Range(Details.successes) \ Indices(Details.rollback_errors)

WaitAllResult ==
    IF WaitAllOutcome.ok THEN OkR
    ELSE failure_after_rollback(WaitAllOutcome.details, FailedDeletes)

\* C38: under AllOrFail an Optimistic put never spawns a background task and
\* is observationally the WaitAll put: under either policy the calls and the
\* result are the same function of the backend outcomes. The put goes to
\* every backend 0..N-1 once, in order, before it returns or rolls back (the
\* threshold N can only be met by the last put); the deletes are those of
\* the rollback of the successes of evaluate_write_results, and none when
\* the put succeeds; the result is Ok, or the MirrorFailure of
\* evaluate_write_results with the failed deletes.
C38_AllOrFailOptimisticIsWaitAll ==
    (return_policy \in {"Optimistic", "WaitAll"} /\ write_strategy.kind = "AllOrFail") =>
        /\ bg = <<>>
        /\ pc # "spawned"
        /\ InPut =>
              /\ \A k \in 1..Len(TracePuts) : TracePuts[k].b = k - 1
              /\ pc = "put" => Len(TracePuts) = idx /\ idx < N /\ TraceDeletes = <<>>
              /\ pc \in {"idle", "rollback"} => Len(TracePuts) = N
              /\ pc = "rollback" => ~WaitAllOutcome.ok /\ WaitAllRollback # <<>>
              /\ Len(TraceDeletes) <= Len(WaitAllRollback)
              /\ \A k \in 1..Len(TraceDeletes) : TraceDeletes[k].b = WaitAllRollback[k]
              /\ pc = "idle" =>
                    /\ [k \in 1..Len(TraceDeletes) |-> TraceDeletes[k].b] =
                          (IF WaitAllOutcome.ok THEN <<>> ELSE WaitAllRollback)
                    /\ result = WaitAllResult

\* An Optimistic put under AllOrFail over three backends has returned Ok
\* after its third put, with no task spawned.
C38_Witness ==
    /\ return_policy = "Optimistic"
    /\ write_strategy.kind = "AllOrFail"
    /\ PutReturned
    /\ result = OkR
    /\ N = 3
    /\ Len(TracePuts) = 3
    /\ bg = <<>>

\* ---------------------------------------------------------------- puts whose input cannot be read
\* Error::Io(e), made from the std::io::Error of the reader by `?`.
Io(s) == [kind |-> "Io", msg |-> s]
\* The error a caller's reader fails with.
InputError == "unexpected end of file"
\* No buffer: read_to_end did not return the payload.
Unread == <<"unread", 0>>

from_io_error_as_failure(e) == MirrorFailure(MirrorFailureDetails(<<>>, <<>>, <<>>))

\* impl From<std::io::Error> for Error, by #[from].
from_io_error(e) == Io(e)

\* put on an input whose read fails: `reader.read_to_end(&mut buffer).await?`
\* returns the error before required_successes is computed and before the
\* match on the return policy.
PutInputFails ==
    /\ pc = "idle"
    /\ read.pc = "idle"
    /\ calls < MaxCalls
    /\ read' = NoRead
    /\ pc' = "idle"
    /\ buffer' = Unread
    /\ required' = 0
    /\ idx' = 0
    /\ results' = <<>>
    /\ successes' = <<>>
    /\ failures' = <<>>
    /\ rollback_errors' = <<>>
    /\ rb' = 0
    /\ result' = ErrR(from_io_error(InputError))
    /\ trace' = <<>>
    /\ history' = Append(history, "put")
    /\ quiet' = ~BgActive
    /\ bg_failed' = {}
    /\ bg' = bg
    /\ UNCHANGED <<backends, cfg, wrappers>>

NextInput ==
    \/ PutBegin
    \/ PutInputFails
    \/ PutWaitAll
    \/ PutOptimistic
    \/ PutOptimisticReturn
    \/ PutFastFail
    \/ Rollback
    \/ Background

SpecInput == Init /\ [][NextInput]_vars

\* C39: a put whose input read fails has returned at once with the I/O error
\* of the read, which is no MirrorFailure; it has made no backend put and no
\* backend delete and has spawned no task, under every strategy and return
\* policy; and a put returns an I/O error in no other case.
C39_InputErrorReturned ==
    InPut =>
        /\ buffer = Unread =>
              /\ pc = "idle"
              /\ result = ErrR(Io(InputError))
              /\ ~IsMirrorFailure(result)
              /\ trace = <<>>
              /\ \A t \in 1..Len(bg) : bg[t].payload # Unread
              /\ successes = <<>> /\ failures = <<>> /\ rollback_errors = <<>>
        /\ (pc = "idle" /\ buffer # Unread) => (result = OkR \/ IsMirrorFailure(result))

\* The second put, under Optimistic, failed on its input while the task of
\* the first put was still writing: it returned the I/O error and made no call.
C39_Witness ==
    /\ PutReturned
    /\ buffer = Unread
    /\ calls = 2
    /\ return_policy = "Optimistic"
    /\ bg # <<>>
    /\ result = ErrR(Io(InputError))
    /\ trace = <<>>

====
